---- MODULE Spec2Model ----
(***************************************************************************)
(* Model of the open-crypto polling core: Exchange.request,                *)
(* Exchange.test_connection and Exchange.format_data                       *)
(* (model/exchange/exchange.py), the start-up and restart loop of main.py, *)
(* the pair resolution, session_scope, persist_tickers and                *)
(* persist_historic_rates of the DatabaseHandler                           *)
(* (model/database/db_handler.py), the TYPE_CONVERSION registry            *)
(* (model/utilities/utilities.py) and get_config_template                  *)
(* (open_crypto/runner.py).                                                *)
(*                                                                         *)
(* Strings built by str.format are sequences of tokens; a currency pair is *)
(* the id of an ExchangeCurrencyPair row; the key None of the responses    *)
(* dict is NoneKey.  A server answers a GET with a body that echoes the    *)
(* url and the params it was sent, so that where a response is stored can  *)
(* be compared with what it was requested for.                             *)
(***************************************************************************)
EXTENDS Integers, Sequences, FiniteSets, TLC

\* ---------------------------------------------------------------- bounds
MaxPairs == 3        \* longest currency_pairs list handed to request
MaxExc == 2          \* calls start only while exception_counter is below this
MaxTime == 2         \* the clock stops advancing here
MaxRestarts == 1     \* restarts of run()'s loop that are explored
MaxTicks == 2        \* scheduler ticks that are explored
MaxPacedPairs == 2   \* longest pair list requested under the advancing clock
MaxJobPairs == 1     \* longest pair list bound to an exchange of a job
MaxColLen == 3       \* longest list a mapping extracts from one response
MaxFormatPairs == 3  \* most currency pairs in a raw result with several of them
MaxListed == 2       \* longest explicit list of pairs in a job
MaxBatch == 3        \* most rows in a batch handed to persist_tickers
MaxElapse == 2       \* times the clock advances between conversions
MaxApplications == 2 \* applications of one conversion to one value
MaxRates == 2          \* historic rates in one batch
MaxConfigured == 2     \* exchange names listed in one job

\* ------------------------------------------------------------- the inputs
NoneKey == 0
PairIds == {1, 2, 3}
ExchangeCurrencyPair ==
    [p \in PairIds |->
        CASE p = 1 -> [first |-> "BTC", second |-> "ETH"]
          [] p = 2 -> [first |-> "ETH", second |-> "USD"]
          [] OTHER -> [first |-> "BTC", second |-> "USD"]]

RequestNames == {"ticker", "trades"}

\* str.lower on the tokens that occur
Lower(tok) ==
    CASE tok = "BTC" -> "btc"
      [] tok = "ETH" -> "eth"
      [] tok = "USD" -> "usd"
      [] tok = "TRUE" -> "true"
      [] OTHER -> tok

\* The outcomes of `await session.get(...)` followed by `await response.json()`:
\* a parsed body, or the exception raised.  The session is built with aiohttp's
\* default ClientTimeout, whose only limit is the total one; when it expires
\* the await raises asyncio.TimeoutError.
OK == "ok"
ConnErr == "ClientConnectionError"
Timeout == "asyncio.TimeoutError"
BadBody == "JSONDecodeError"
Outcomes == {OK, ConnErr, Timeout, BadBody}
\* session.get refuses a params value that is no str, int or float
BadParams == "TypeError"
Pending == "pending"

\* the lists of distinct pairs of length at most n (pair lists are
\* de-duplicated by id where they are collected)
PairLists(n) ==
    {s \in UNION {[1..k -> PairIds] : k \in 0..n} :
        \A a, b \in DOMAIN s : a # b => s[a] # s[b]}

\* ------------------------------------------------- exchange configurations
\* A pair_template dict: the keys it has, and their values.  NoPairTemplate is
\* the empty dict extract_request_urls stores when the yaml gives none.
NoPairTemplate ==
    [keys |-> {}, template |-> <<>>, lower_case |-> FALSE, alias |-> ""]
UrlPairTemplate ==
    [keys |-> {"template", "lower_case"},
     template |-> <<"{first}", "_", "{second}">>, lower_case |-> TRUE, alias |-> ""]
AliasPairTemplate ==
    [keys |-> {"template", "lower_case", "alias"},
     template |-> <<"{first}", "{second}">>, lower_case |-> FALSE, alias |-> "symbol"]
\* a pair_template block written without its lower_case key
BrokenPairTemplate ==
    [keys |-> {"template"},
     template |-> <<"{first}", "_", "{second}">>, lower_case |-> FALSE, alias |-> ""]
PairTemplates == {NoPairTemplate, UrlPairTemplate, AliasPairTemplate, BrokenPairTemplate}

\* rate_limit blocks: units (seconds of the window) and max (requests in it);
\* top_units/top_max are the keys `units` and `max` at the top level of the
\* yaml, which is where __init__ looks for them.
NoRateLimit == [present |-> FALSE, units |-> 0, max |-> 0, top_units |-> 0, top_max |-> 0]
NestedRateLimit == [present |-> TRUE, units |-> 2, max |-> 1, top_units |-> 0, top_max |-> 0]
TopRateLimit == [present |-> TRUE, units |-> 2, max |-> 1, top_units |-> 2, top_max |-> 1]
RateLimits == {NoRateLimit, NestedRateLimit, TopRateLimit}

\* an entry of a request's params block: the keys it has, and their values
DefaultParam(value) == [keys |-> {"default"}, default |-> value, function |-> <<>>]
FunctionParam(conversion) == [keys |-> {"function"}, default |-> <<>>, function |-> conversion]

\* yaml['requests']: "ticker" is always configured, "test_connection" only when
\* tc holds, "trades" never.
RequestsBlock(pt, tc) ==
    [r \in {"ticker"} \cup (IF tc THEN {"test_connection"} ELSE {}) |->
        IF r = "ticker"
        THEN [template |-> IF pt.keys # {} /\ pt.alias = ""
                           THEN <<"ticker/", "{currency_pair}">>
                           ELSE <<"ticker">>,
              pair_template |-> pt,
              params |-> {<<"limit", DefaultParam(<<"100">>)>>}]
        ELSE [template |-> <<"ping">>,
              pair_template |-> NoPairTemplate,
              params |-> {}]]

YamlFile(n, pt, rl, tc) ==
    [name |-> n, api_url |-> <<"https://api/">>, rate_limit |-> rl,
     requests |-> RequestsBlock(pt, tc)]

Yamls ==
    {YamlFile("ex1", pt, rl, tc) : pt \in PairTemplates, rl \in RateLimits, tc \in BOOLEAN}

\* ------------------------------------------------------ Exchange.__init__
\* self.rate_limit, a quotient kept as <<numerator, denominator>>
RateLimitOf(yaml_file) ==
    IF yaml_file.rate_limit.present
       /\ yaml_file.rate_limit.top_units # 0
       /\ yaml_file.rate_limit.top_max # 0
    THEN IF yaml_file.rate_limit.max <= 0
         THEN <<0, 1>>
         ELSE <<yaml_file.rate_limit.units, yaml_file.rate_limit.max>>
    ELSE <<0, 1>>

\* TYPE_CONVERSION[conversion]['function'], the function object itself: a value
\* that is no string
FunctionRef(conversion) == <<"<function>", conversion[1], conversion[2]>>
IsFunctionRef(value) == Len(value) > 0 /\ value[1] = "<function>"

\* what extract_request_urls stores for one entry of the params block: the
\* default as a string, or the conversion function where one is named
CompiledParam(entry) ==
    IF "function" \in entry.keys THEN FunctionRef(entry.function) ELSE entry.default

\* extract_request_urls: request name -> {url, pair_template, params}; a params
\* dict is the set of its <<key, value>> items
extract_request_urls(api_url, requests) ==
    [r \in DOMAIN requests |->
        [url |-> IF requests[r].template # <<>>
                 THEN api_url \o requests[r].template
                 ELSE api_url,
         pair_template |-> requests[r].pair_template,
         params |-> {<<p[1], CompiledParam(p[2])>> :
                        p \in {q \in requests[r].params : q[2].keys # {}}}]]

\* the attributes __init__ sets
NewExchange(yaml_file) ==
    [name |-> yaml_file.name,
     rate_limit |-> RateLimitOf(yaml_file),
     request_urls |-> extract_request_urls(yaml_file.api_url, yaml_file.requests),
     exception_counter |-> 0,
     active_flag |-> TRUE,
     consecutive_exception |-> FALSE]

\* ------------------------------------------------------------------ state
VARIABLES
    exchanges,   \* the live Exchange objects: object id -> attributes
    task,        \* per object, its current or last call: arguments and locals
    gets,        \* per object, the GETs dispatched by that call, with outcomes
    result,      \* per object, what that call returned or raised
    now,         \* the clock, in whole seconds
    main,        \* the program around the exchanges: run(), main(), the scheduler
    fmt,         \* the current or last format_data call: arguments and return
    lib          \* the current or last call of a database-handler or utility function

vars == <<exchanges, task, gets, result, now, main, fmt, lib>>

EmptyDict == [k \in {} |-> {}]
NoTask ==
    [call |-> "none", running |-> FALSE, request_name |-> "", currency_pairs |-> <<>>,
     i |-> 0, responses |-> EmptyDict]
NoResult == [kind |-> "none", name |-> "", success |-> FALSE, payload |-> EmptyDict, at |-> 0]
\* no format_data call has been made
NoFormat == [call |-> "none"]
\* no database-handler or utility function has been called
NoLib == [call |-> "none"]

\* dict item assignment d[k] = v
DictSet(d, k, v) == [x \in DOMAIN d \cup {k} |-> IF x = k THEN v ELSE d[x]]
ParamSet(params, k, v) == {kv \in params : kv[1] # k} \cup {<<k, v>>}

\* what the server sends back for a GET: the request it answers
Body(get) == [url |-> get.url, params |-> get.params]

\* --------------------------------------------- apply_currency_pair_format
RECURSIVE FormatTokens(_, _, _)
FormatTokens(template, first, second) ==
    IF template = <<>> THEN <<>>
    ELSE LET tok == Head(template)
             out == CASE tok = "{first}" -> first
                      [] tok = "{second}" -> second
                      [] OTHER -> tok
         IN <<out>> \o FormatTokens(Tail(template), first, second)

LowerAll(str) == [k \in DOMAIN str |-> Lower(str[k])]

\* the subscripts pair_template_dict['template'] and ['lower_case'] raise
\* KeyError when the key is missing
FormatRaises(pair_template_dict) ==
    ~({"template", "lower_case"} \subseteq pair_template_dict.keys)

\* (mutant) the rendering keeps the case of the symbols whatever lower_case is
apply_currency_pair_format_cased(pair_template_dict, currency_pair) ==
    FormatTokens(pair_template_dict.template,
                 ExchangeCurrencyPair[currency_pair].first,
                 ExchangeCurrencyPair[currency_pair].second)

apply_currency_pair_format(pair_template_dict, currency_pair) ==
    LET formatted_string ==
            FormatTokens(pair_template_dict.template,
                         ExchangeCurrencyPair[currency_pair].first,
                         ExchangeCurrencyPair[currency_pair].second)
    IN IF pair_template_dict.lower_case THEN LowerAll(formatted_string)
       ELSE formatted_string

\* url.format(currency_pair=pair_formatted)
RECURSIVE FormatUrl(_, _)
FormatUrl(url, pair_formatted) ==
    IF url = <<>> THEN <<>>
    ELSE (IF Head(url) = "{currency_pair}" THEN pair_formatted ELSE <<Head(url)>>)
         \o FormatUrl(Tail(url), pair_formatted)

\* ------------------------------------------------------- Exchange.request
\* `pair_formatting_needed`: the compiled pair_template dict is not empty
PairFormattingNeeded(ex, request_name) ==
    ex.request_urls[request_name].pair_template.keys # {}

\* the guard of request: the name is a key of request_urls and its entry is
\* truthy (a compiled entry always has its three keys)
RequestConfigured(ex, request_name) ==
    request_name \in DOMAIN ex.request_urls

\* One pass through the head of the loop body for pair cp, up to the
\* dispatch of session.get: `params` is the compiled dict itself, so the
\* alias assignment writes into request_urls.  The formatting is outside the
\* try block: an exception raised there leaves the coroutine.
PrepareGet(ex, request_name, cp) ==
    LET spec == ex.request_urls[request_name]
        pair_template_dict == spec.pair_template
        needed == PairFormattingNeeded(ex, request_name)
        pair_formatted == apply_currency_pair_format(pair_template_dict, cp)
        aliased == needed /\ "alias" \in pair_template_dict.keys
                          /\ pair_template_dict.alias # ""
        params == IF aliased
                  THEN ParamSet(spec.params, pair_template_dict.alias, pair_formatted)
                  ELSE spec.params
        url == IF needed /\ ~aliased THEN FormatUrl(spec.url, pair_formatted)
               ELSE spec.url
    IN IF needed /\ FormatRaises(pair_template_dict)
       THEN [raised |-> TRUE, ex |-> ex,
             get |-> [op |-> "request", cp |-> cp, url |-> <<>>, params |-> {},
                      at |-> now, outcome |-> Pending]]
       ELSE [raised |-> FALSE,
             ex |-> [ex EXCEPT !.request_urls[request_name].params = params],
             get |-> [op |-> "request", cp |-> cp, url |-> url, params |-> params,
                      at |-> now, outcome |-> Pending]]

\* (mutant) the loop body without its catch-all `except Exception`
HandlerWithoutCatchAll(outcome) ==
    CASE outcome = OK -> "none"
      [] outcome = ConnErr -> "ClientConnectionError"
      [] OTHER -> "propagates"

\* which except clause of the loop body takes the outcome of a GET
Handler(outcome) ==
    CASE outcome = OK -> "none"
      [] outcome = ConnErr -> "ClientConnectionError"
      [] outcome \in {Timeout, BadBody, BadParams} -> "Exception"
      [] OTHER -> "propagates"

\* (mutant) a connection failure sets the flag but is not counted
AfterOutcomeUncounted(ex, outcome) ==
    IF outcome = ConnErr THEN [ex EXCEPT !.consecutive_exception = TRUE] ELSE ex

\* the handlers' effect on the exchange: only the first clause counts
AfterOutcome(ex, outcome) ==
    IF Handler(outcome) = "ClientConnectionError"
    THEN [ex EXCEPT !.exception_counter = @ + 1, !.consecutive_exception = TRUE]
    ELSE ex

\* (mutant) every parsed body is put under None
StoreResponseUnderNone(responses, needed, cp, outcome, body) ==
    IF outcome # OK THEN responses ELSE DictSet(responses, NoneKey, body)

\* where a parsed body is put
StoreResponse(responses, needed, cp, outcome, body) ==
    IF outcome # OK THEN responses
    ELSE IF needed THEN DictSet(responses, cp, body)
    ELSE DictSet(responses, NoneKey, body)

\* the `break` after a response for all pairs has been stored
LoopBreaks(needed, outcome) == outcome = OK /\ ~needed

RequestReturn(ex, responses) ==
    [kind |-> "tuple", name |-> ex.name, success |-> FALSE, payload |-> responses,
     at |-> now]

\* (mutant) the else branch returns the name with an empty mapping
NoneReturnAsTuple ==
    [kind |-> "tuple", name |-> "", success |-> FALSE, payload |-> [k \in {} |-> {}],
     at |-> 0]

\* the implicit `return None` of the else branch
NoneReturn ==
    [kind |-> "None", name |-> "", success |-> FALSE, payload |-> EmptyDict, at |-> 0]

Raised ==
    [kind |-> "raised", name |-> "", success |-> FALSE, payload |-> EmptyDict, at |-> 0]

NewTask(call, running, request_name, currency_pairs) ==
    [call |-> call, running |-> running, request_name |-> request_name,
     currency_pairs |-> currency_pairs, i |-> IF running THEN 1 ELSE 0,
     responses |-> EmptyDict]

\* the call, up to its first suspension at session.get (or to its return)
request(o, request_name, currency_pairs) ==
    /\ ~task[o].running
    /\ exchanges[o].exception_counter < MaxExc
    /\ now' = now
    /\ IF RequestConfigured(exchanges[o], request_name)
       THEN IF currency_pairs = <<>>
            THEN /\ result' = [result EXCEPT ![o] = RequestReturn(exchanges[o], EmptyDict)]
                 /\ gets' = [gets EXCEPT ![o] = <<>>]
                 /\ task' = [task EXCEPT ![o] =
                               NewTask("request", FALSE, request_name, currency_pairs)]
                 /\ UNCHANGED exchanges
            ELSE LET st == PrepareGet(exchanges[o], request_name, currency_pairs[1])
                 IN /\ exchanges' = [exchanges EXCEPT ![o] = st.ex]
                    /\ gets' = [gets EXCEPT ![o] = IF st.raised THEN <<>> ELSE <<st.get>>]
                    /\ task' = [task EXCEPT ![o] =
                                  NewTask("request", ~st.raised, request_name,
                                          currency_pairs)]
                    /\ result' = [result EXCEPT ![o] =
                                    IF st.raised THEN Raised ELSE NoResult]
       ELSE /\ result' = [result EXCEPT ![o] = NoneReturn]
            /\ gets' = [gets EXCEPT ![o] = <<>>]
            /\ task' = [task EXCEPT ![o] =
                          NewTask("request", FALSE, request_name, currency_pairs)]
            /\ UNCHANGED exchanges

\* (mutant) the health fields are shared by all Exchange objects, as attributes
\* of the class would be
WriteSelfShared(objects, o, ex) ==
    [x \in DOMAIN objects |->
        IF x = o THEN ex
        ELSE [objects[x] EXCEPT !.exception_counter = ex.exception_counter,
                                !.consecutive_exception = ex.consecutive_exception]]

\* the assignments to attributes of self: they change the object the method
\* was called on
WriteSelf(objects, o, ex) == [objects EXCEPT ![o] = ex]

\* the GET in flight completes with `outcome`; the loop runs on to the next
\* dispatch or to the return
request_get_done(o, outcome) ==
    /\ task[o].running
    /\ task[o].call = "request"
    /\ now' = now
    /\ LET t == task[o]
           ex == exchanges[o]
           cp == t.currency_pairs[t.i]
           get == gets[o][t.i]
           logged == [gets[o] EXCEPT ![t.i].outcome = outcome]
           needed == PairFormattingNeeded(ex, t.request_name)
           responses == StoreResponse(t.responses, needed, cp, outcome, Body(get))
           ex1 == AfterOutcome(ex, outcome)
           more == ~LoopBreaks(needed, outcome) /\ t.i < Len(t.currency_pairs)
           st == PrepareGet(ex1, t.request_name, t.currency_pairs[t.i + 1])
       IN IF Handler(outcome) = "propagates"
          THEN /\ exchanges' = exchanges
               /\ gets' = [gets EXCEPT ![o] = logged]
               /\ task' = [task EXCEPT ![o].running = FALSE]
               /\ result' = [result EXCEPT ![o] = Raised]
          ELSE IF more /\ ~st.raised
          THEN /\ exchanges' = WriteSelf(exchanges, o, st.ex)
               /\ gets' = [gets EXCEPT ![o] = Append(logged, st.get)]
               /\ task' = [task EXCEPT ![o].i = @ + 1, ![o].responses = responses]
               /\ UNCHANGED result
          ELSE /\ exchanges' = WriteSelf(exchanges, o, ex1)
               /\ gets' = [gets EXCEPT ![o] = logged]
               /\ task' = [task EXCEPT ![o].running = FALSE, ![o].responses = responses]
               /\ result' = [result EXCEPT ![o] =
                               IF more THEN Raised ELSE RequestReturn(ex1, responses)]

\* ----------------------------------------------- Exchange.test_connection
\* The compiled entry is the dict {url, pair_template, params}.  The argument
\* of session.get subscripts it with 0: the KeyError is raised inside the try
\* block before the GET is dispatched, the catch-all clause takes it and the
\* call returns (name, False, {}).
ProbeReturn(ex) ==
    [kind |-> "probe", name |-> ex.name, success |-> FALSE, payload |-> EmptyDict,
     at |-> 0]

test_connection(o) ==
    /\ ~task[o].running
    /\ now' = now
    /\ UNCHANGED exchanges
    /\ gets' = [gets EXCEPT ![o] = <<>>]
    /\ task' = [task EXCEPT ![o] = NewTask("test_connection", FALSE, "", <<>>)]
    /\ result' = [result EXCEPT ![o] =
                    IF "test_connection" \in DOMAIN exchanges[o].request_urls
                    THEN ProbeReturn(exchanges[o])
                    ELSE NoneReturn]

\* ---------------------------------------------------- Exchange.format_data
\* A value that Mapping.extract_value hands back, or a cell of a row: a number,
\* a datetime, a str (its characters), a list (its cells), or None.  The kind
\* "raises" stands for a call of extract_value that raises.
Null == [kind |-> "null", val |-> <<>>]
Raises == [kind |-> "raises", val |-> <<>>]
Num(n) == [kind |-> "number", val |-> <<n>>]
Time(t) == [kind |-> "datetime", val |-> <<t>>]
Str(chars) == [kind |-> "string", val |-> chars]
Col(cells) == [kind |-> "column", val |-> cells]

\* a list of n numbers
Column(n) == Col([k \in 1..n |-> Num(k)])
\* a list in which the conversion of one element gave None
ColumnWithNull == Col(<<Num(1), Null>>)
TheNumber == Num(7)
TheString == Str(<<"B", "T">>)

Extracted ==
    {Raises, Null, TheNumber, TheString, Column(0), Column(1), Column(MaxColLen),
     ColumnWithNull}

\* the parsed body {}
EmptyObject == [k \in {} |-> Null]

\* Mapping.extract_value(current_response) for the mapping with key `key`: a
\* parsed body is kept as what each mapping of the request extracts from it
extract_value(key, current_response) == current_response[key]

\* hasattr(v, '__iter__'): true of list, range and str
HasIter(v) == v.kind \in {"column", "string"}

\* the items that iterating v gives: the cells of a list, the characters of a str
Items(v) == IF v.kind = "string" THEN [k \in DOMAIN v.val |-> Str(<<v.val[k]>>)]
            ELSE v.val

SeqRange(seq) == {seq[k] : k \in DOMAIN seq}
MaxOf(S) == CHOOSE m \in S : \A n \in S : n <= m

\* an insertion-ordered dict: its keys in order, and the value of each
OrderedDict(keys, val) == [keys |-> keys, val |-> [k \in SeqRange(keys) |-> val[k]]]

\* d[k] = v, and d.update({k: v}): a new key goes to the end
OrderedSet(d, k, v) ==
    [keys |-> IF k \in SeqRange(d.keys) THEN d.keys ELSE Append(d.keys, k),
     val |-> [x \in SeqRange(d.keys) \cup {k} |-> IF x = k THEN v ELSE d.val[x]]]

\* (mutant) {**temp_results, **kwargs}: the constants win
MergeConstantsLast(kwargs, temp_results) ==
    [keys |-> temp_results.keys
                \o SelectSeq(kwargs.keys, LAMBDA k : k \notin SeqRange(temp_results.keys)),
     val |-> [k \in SeqRange(kwargs.keys) \cup SeqRange(temp_results.keys) |->
                IF k \in SeqRange(kwargs.keys) THEN kwargs.val[k]
                ELSE temp_results.val[k]]]

\* {**kwargs, **temp_results}: the keys of kwargs first, the values of
\* temp_results where both have the key
Merge(kwargs, temp_results) ==
    [keys |-> kwargs.keys
                \o SelectSeq(temp_results.keys, LAMBDA k : k \notin SeqRange(kwargs.keys)),
     val |-> [k \in SeqRange(kwargs.keys) \cup SeqRange(temp_results.keys) |->
                IF k \in SeqRange(temp_results.keys) THEN temp_results.val[k]
                ELSE kwargs.val[k]]]

\* len_results: the longest of the values that have __iter__, 1 if none has
LenResults(temp_results) ==
    LET lens == {Len(Items(temp_results.val[k])) :
                    k \in {x \in SeqRange(temp_results.keys) : HasIter(temp_results.val[x])}}
    IN IF lens = {} THEN 1 ELSE MaxOf(lens)

\* v if it has __iter__, else itertools.repeat(v, len_results)
AsColumn(v, len_results) ==
    IF HasIter(v) THEN Items(v) ELSE [k \in 1..len_results |-> v]

\* (mutant) zip: the shortest column ends the rows
ZipShortest(columns) ==
    LET lens == {Len(columns[j]) : j \in DOMAIN columns}
        n == IF lens = {} THEN 0 ELSE CHOOSE m \in lens : \A x \in lens : m <= x
    IN [r \in 1..n |-> [j \in DOMAIN columns |-> columns[j][r]]]

\* list(itertools.zip_longest(*columns)): None where a column has ended
ZipLongest(columns) ==
    LET lens == {Len(columns[j]) : j \in DOMAIN columns}
        n == IF lens = {} THEN 0 ELSE MaxOf(lens)
    IN [r \in 1..n |->
          [j \in DOMAIN columns |->
              IF r <= Len(columns[j]) THEN columns[j][r] ELSE Null]]

\* the test `'currency_pair_first' and 'currency_pair_second' not in
\* mapping_keys`: the first operand is a non-empty str, so the value is that of
\* the second
PairIdAdded(mapping_keys) == "currency_pair_second" \notin SeqRange(mapping_keys)

\* (mutant) the key list is that of the mappings
updated_mappings_unmerged(mapping_keys, temp_results) == mapping_keys

\* `updated_mappings = temp_results.keys()`: the keys of the merged dict
updated_mappings(mapping_keys, temp_results) == temp_results.keys

\* One pass of the loop body for the key currency_pair of responses.  what is
\* "skipped" (falsy body), "except" (extract_value raised), "invalid" (a field
\* is None), "raised" (currency_pair.id on the key None: the AttributeError is
\* raised in the else block, which no handler covers) or "rows".
FormatPair(mapping_keys, currency_pair, current_response, kwargs) ==
    LET extracted == [k \in SeqRange(mapping_keys) |-> extract_value(k, current_response)]
        temp0 == OrderedDict(mapping_keys, extracted)
        len_results == LenResults(temp0)
        temp1 == IF "position" \in SeqRange(temp0.keys)
                 THEN OrderedSet(temp0, "position", Col([k \in 1..len_results |-> Num(k - 1)]))
                 ELSE temp0
        temp2 == IF PairIdAdded(mapping_keys)
                 THEN OrderedSet(temp1, "exchange_pair_id", Num(currency_pair))
                 ELSE temp1
        temp_results == Merge(kwargs, temp2)
        columns == [j \in DOMAIN temp_results.keys |->
                      AsColumn(temp_results.val[temp_results.keys[j]], len_results)]
    IN IF current_response = EmptyObject
       THEN [what |-> "skipped", rows |-> <<>>, keys |-> <<>>]
       ELSE IF \E k \in SeqRange(mapping_keys) : extracted[k].kind = "raises"
       THEN [what |-> "except", rows |-> <<>>, keys |-> <<>>]
       ELSE IF \E k \in SeqRange(mapping_keys) : extracted[k].kind = "null"
       THEN [what |-> "invalid", rows |-> <<>>, keys |-> <<>>]
       ELSE IF PairIdAdded(mapping_keys) /\ currency_pair = NoneKey
       THEN [what |-> "raised", rows |-> <<>>, keys |-> <<>>]
       ELSE [what |-> "rows", rows |-> ZipLongest(columns),
             keys |-> updated_mappings(mapping_keys, temp_results)]

\* (mutant) a pair without valid data ends the loop
LoopGoesOnAfterBreak(what) == what \in {"skipped", "rows"}

\* whether the loop goes on to the next key after a pass
LoopGoesOn(what) == what \in {"skipped", "except", "invalid", "rows"}

\* the loop over responses.keys(), from position i of the key order; acc holds
\* results, updated_mappings and, per key passed, what its pass did and the
\* rows it added
RECURSIVE FormatLoop(_, _, _, _, _)
FormatLoop(mapping_keys, responses, kwargs, i, acc) ==
    IF i > Len(responses.order) THEN acc
    ELSE LET currency_pair == responses.order[i]
             pass == FormatPair(mapping_keys, currency_pair,
                                responses.body[currency_pair], kwargs)
             acc1 == [status |-> IF pass.what = "raised" THEN "raised" ELSE acc.status,
                      results |-> acc.results \o pass.rows,
                      updated_mappings |-> IF pass.what = "rows" THEN pass.keys
                                           ELSE acc.updated_mappings,
                      passes |-> DictSet(acc.passes, currency_pair, pass)]
         IN IF pass.what # "raised" /\ LoopGoesOn(pass.what)
            THEN FormatLoop(mapping_keys, responses, kwargs, i + 1, acc1)
            ELSE acc1

\* format_data(method, response, **kwargs) of the exchange ex; response is
\* (name, responses)
format_data(ex, mapping_keys, response, kwargs) ==
    IF response.name # ex.name
    THEN [status |-> "None", results |-> <<>>, updated_mappings |-> <<>>,
          passes |-> EmptyDict]
    ELSE FormatLoop(mapping_keys, response.responses, kwargs, 1,
                    [status |-> "returned", results |-> <<>>, updated_mappings |-> <<>>,
                     passes |-> EmptyDict])

\* ------------------------------------ one Exchange object, called freely
\* the program position while no program runs around the object
NoMain ==
    [pc |-> "none", frequency |-> "", jobs_valid |-> TRUE, yaml_file |-> <<>>,
     pairs |-> <<>>, called |-> {}, forwarded |-> {}, ticks |-> 0, restarts |-> 0,
     stopped_at |-> ""]

Init ==
    /\ \E yaml_file \in Yamls : exchanges = [o \in {"o1"} |-> NewExchange(yaml_file)]
    /\ task = [o \in {"o1"} |-> NoTask]
    /\ gets = [o \in {"o1"} |-> <<>>]
    /\ result = [o \in {"o1"} |-> NoResult]
    /\ now = 0
    /\ main = NoMain
    /\ fmt = NoFormat
    /\ lib = NoLib

Request ==
    /\ \E o \in DOMAIN exchanges, request_name \in RequestNames,
          currency_pairs \in PairLists(MaxPairs) :
           request(o, request_name, currency_pairs)
    /\ UNCHANGED <<main, fmt, lib>>

RequestGetDone ==
    /\ \E o \in DOMAIN exchanges, outcome \in Outcomes : request_get_done(o, outcome)
    /\ UNCHANGED <<main, fmt, lib>>

TestConnection ==
    /\ \E o \in DOMAIN exchanges : test_connection(o)
    /\ UNCHANGED <<main, fmt, lib>>

Next == Request \/ RequestGetDone \/ TestConnection

Spec == Init /\ [][Next]_vars

\* ------------------------------------- requests under a clock that advances
\* a second passes
Tick ==
    /\ now < MaxTime
    /\ now' = now + 1
    /\ UNCHANGED <<exchanges, task, gets, result, main, fmt, lib>>

PacedYamls ==
    {YamlFile("ex1", pt, rl, FALSE) :
        pt \in {NoPairTemplate, UrlPairTemplate}, rl \in {NoRateLimit, TopRateLimit}}

InitPacing ==
    /\ \E yaml_file \in PacedYamls : exchanges = [o \in {"o1"} |-> NewExchange(yaml_file)]
    /\ task = [o \in {"o1"} |-> NoTask]
    /\ gets = [o \in {"o1"} |-> <<>>]
    /\ result = [o \in {"o1"} |-> NoResult]
    /\ now = 0
    /\ main = NoMain
    /\ fmt = NoFormat
    /\ lib = NoLib

RequestTicker ==
    /\ \E o \in DOMAIN exchanges, currency_pairs \in PairLists(MaxPacedPairs) :
           request(o, "ticker", currency_pairs)
    /\ UNCHANGED <<main, fmt, lib>>

NextPacing == RequestTicker \/ RequestGetDone \/ Tick

SpecPacing == InitPacing /\ [][NextPacing]_vars

\* ------------------------------------------------ main.py: run() and main()
\* Two jobs, each bound to one exchange name; initialize_jobs builds one
\* Exchange object per job and exchange name, from yaml_loader(exchange_name).
JobObjects == {"o1", "o2"}
MainYamls == {YamlFile("ex1", pt, NoRateLimit, TRUE) : pt \in {NoPairTemplate, UrlPairTemplate}}

InitMain ==
    /\ exchanges = [o \in {} |-> NewExchange(YamlFile("", NoPairTemplate, NoRateLimit, FALSE))]
    /\ task = [o \in {} |-> NoTask]
    /\ gets = [o \in {} |-> <<>>]
    /\ result = [o \in {} |-> NoResult]
    /\ now = 0
    /\ fmt = NoFormat
    /\ lib = NoLib
    /\ \E yaml_file \in MainYamls, frequency \in {"once", "minutes"},
          pairs \in [JobObjects -> PairLists(MaxJobPairs) \ {<<>>}] :
           main = [pc |-> "start", frequency |-> frequency, jobs_valid |-> TRUE,
                   yaml_file |-> [o \in JobObjects |-> yaml_file],
                   pairs |-> pairs, called |-> {}, forwarded |-> {}, ticks |-> 0,
                   restarts |-> 0, stopped_at |-> ""]

\* initialize_jobs: a new Exchange object for every exchange name of every job
initialize_jobs ==
    /\ main.pc = "start"
    /\ main.jobs_valid
    /\ exchanges' = [o \in JobObjects |-> NewExchange(main.yaml_file[o])]
    /\ task' = [o \in JobObjects |-> NoTask]
    /\ gets' = [o \in JobObjects |-> <<>>]
    /\ result' = [o \in JobObjects |-> NoResult]
    /\ main' = [main EXCEPT !.pc = "validating", !.called = {}]
    /\ UNCHANGED <<now, fmt, lib>>

\* Scheduler(...) and validate_job()
validate_job ==
    /\ main.pc = "validating"
    /\ main.frequency # "invalid"
    /\ main' = [main EXCEPT !.pc = "idle"]
    /\ UNCHANGED <<exchanges, task, gets, result, now, fmt, lib>>

\* scheduler.start(): a tick begins, one request task per bound exchange
start ==
    /\ main.pc = "idle"
    /\ main.ticks < MaxTicks
    /\ main' = [main EXCEPT !.pc = "tick", !.ticks = @ + 1, !.called = {},
                             !.forwarded = {}]
    /\ UNCHANGED <<exchanges, task, gets, result, now, fmt, lib>>

\* a request task of the tick runs up to its first GET
tick_request(o) ==
    /\ main.pc = "tick"
    /\ o \notin main.called
    /\ request(o, "ticker", main.pairs[o])
    /\ main' = [main EXCEPT !.called = @ \cup {o}]
    /\ UNCHANGED <<fmt, lib>>

tick_get_done(o, outcome) ==
    /\ main.pc = "tick"
    /\ request_get_done(o, outcome)
    /\ UNCHANGED <<main, fmt, lib>>

TickJoined ==
    /\ main.called = JobObjects
    /\ \A o \in JobObjects : ~task[o].running

\* every task of the tick has returned: the rows of every exchange that
\* returned its responses are formatted and forwarded to the database handler;
\* with frequency "minutes" the scheduler then sleeps until the next tick
tick_complete ==
    /\ main.pc = "tick"
    /\ TickJoined
    /\ \A o \in JobObjects : result[o].kind # "raised"
    /\ main' = [main EXCEPT !.pc = IF main.frequency = "once" THEN "once_done" ELSE "idle",
                             !.forwarded = {o \in JobObjects : result[o].kind = "tuple"}]
    /\ UNCHANGED <<exchanges, task, gets, result, now, fmt, lib>>

\* (mutant) the exception is not caught and ends the process
tick_exception_uncaught ==
    /\ main.pc = "tick"
    /\ TickJoined
    /\ main.restarts < MaxRestarts
    /\ main' = [main EXCEPT !.pc = "crashed", !.restarts = @ + 1]
    /\ UNCHANGED <<exchanges, task, gets, result, now, fmt, lib>>

\* an exception (of the persistence at the end of the tick) leaves
\* scheduler.start() and main(); run() logs it and calls main() again
tick_exception ==
    /\ main.pc = "tick"
    /\ TickJoined
    /\ main.restarts < MaxRestarts
    /\ main' = [main EXCEPT !.pc = "start", !.restarts = @ + 1]
    /\ UNCHANGED <<exchanges, task, gets, result, now, fmt, lib>>

\* initialize_jobs raises (a job without its keys, a yaml that does not load):
\* the exception leaves main(); run() logs it and calls main() again
initialize_jobs_raises ==
    /\ main.pc = "start"
    /\ ~main.jobs_valid
    /\ main.restarts < MaxRestarts
    /\ main' = [main EXCEPT !.restarts = @ + 1]
    /\ UNCHANGED <<exchanges, task, gets, result, now, fmt, lib>>

\* validate_job raises on the frequency; run() logs it and calls main() again
validate_job_raises ==
    /\ main.pc = "validating"
    /\ main.frequency = "invalid"
    /\ main.restarts < MaxRestarts
    /\ main' = [main EXCEPT !.pc = "start", !.restarts = @ + 1]
    /\ UNCHANGED <<exchanges, task, gets, result, now, fmt, lib>>

\* a request task has raised: the exception leaves the wait for the tasks of
\* the tick, scheduler.start() and main(), whether or not the other tasks
\* have returned; run() logs it and calls main() again
tick_task_exception ==
    /\ main.pc = "tick"
    /\ main.called = JobObjects
    /\ \E o \in JobObjects : result[o].kind = "raised"
    /\ main.restarts < MaxRestarts
    /\ main' = [main EXCEPT !.pc = "start", !.restarts = @ + 1]
    /\ UNCHANGED <<exchanges, task, gets, result, now, fmt, lib>>

\* where SIGINT can arrive: anywhere between the start of main() and the end
\* of the process
Running == main.pc \in {"start", "validating", "idle", "tick"}

\* (mutant) the SystemExit is caught like an Exception and run() restarts
signal_handler_swallowed ==
    /\ Running
    /\ main' = [main EXCEPT !.pc = "start", !.stopped_at = main.pc]
    /\ UNCHANGED <<exchanges, task, gets, result, now, fmt, lib>>

\* SIGINT: signal_handler calls sys.exit(0); the SystemExit is no Exception,
\* it passes every `except Exception` on its way and ends the process
signal_handler ==
    /\ Running
    /\ main' = [main EXCEPT !.pc = "stopped", !.stopped_at = main.pc]
    /\ UNCHANGED <<exchanges, task, gets, result, now, fmt, lib>>

InitializeJobs == initialize_jobs
ValidateJob == validate_job
Start == start
TickRequest == \E o \in JobObjects : tick_request(o)
TickGetDone == \E o \in JobObjects, outcome \in Outcomes : tick_get_done(o, outcome)
TickComplete == tick_complete
TickException == tick_exception

NextMain ==
    \/ InitializeJobs \/ ValidateJob \/ Start \/ TickRequest \/ TickGetDone
    \/ TickComplete \/ TickException

SpecMain == InitMain /\ [][NextMain]_vars

\* run() calls main() again as soon as it has logged the exception, and main()
\* runs initialize_jobs, validate_job and scheduler.start() one after the
\* other: none of the three stays enabled without being taken
\* (each job requests one pair of its exchange)
InitMainFair ==
    /\ InitMain
    /\ main.pairs = [o \in JobObjects |-> IF o = "o1" THEN <<1>> ELSE <<2>>]

SpecMainFair ==
    /\ InitMainFair /\ [][NextMain]_vars
    /\ WF_vars(InitializeJobs) /\ WF_vars(ValidateJob) /\ WF_vars(Start)

\* ------------------- the process: invalid configurations, raising tasks, SIGINT
\* o1 loads a yaml whose requests work, o2 one that may lack the lower_case
\* key of its pair_template; the jobs section and the frequency may be invalid
ProcessYamls ==
    [o \in JobObjects |->
        IF o = "o1" THEN {YamlFile("ex1", UrlPairTemplate, NoRateLimit, TRUE)}
        ELSE {YamlFile("ex2", pt, NoRateLimit, TRUE) :
                 pt \in {UrlPairTemplate, BrokenPairTemplate}}]

InitProcess ==
    /\ exchanges = [o \in {} |-> NewExchange(YamlFile("", NoPairTemplate, NoRateLimit, FALSE))]
    /\ task = [o \in {} |-> NoTask]
    /\ gets = [o \in {} |-> <<>>]
    /\ result = [o \in {} |-> NoResult]
    /\ now = 0
    /\ fmt = NoFormat
    /\ lib = NoLib
    /\ \E y1 \in ProcessYamls["o1"], y2 \in ProcessYamls["o2"],
          frequency \in {"once", "minutes", "invalid"}, jobs_valid \in BOOLEAN :
           main = [pc |-> "start", frequency |-> frequency, jobs_valid |-> jobs_valid,
                   yaml_file |-> [o \in JobObjects |-> IF o = "o1" THEN y1 ELSE y2],
                   pairs |-> [o \in JobObjects |-> IF o = "o1" THEN <<1>> ELSE <<2>>],
                   called |-> {}, forwarded |-> {}, ticks |-> 0, restarts |-> 0,
                   stopped_at |-> ""]

InitializeJobsRaises == initialize_jobs_raises
ValidateJobRaises == validate_job_raises
TickTaskException == tick_task_exception
SignalHandler == signal_handler

NextProcess ==
    \/ NextMain \/ InitializeJobsRaises \/ ValidateJobRaises \/ TickTaskException
    \/ SignalHandler

SpecProcess == InitProcess /\ [][NextProcess]_vars

\* ------------------------------------- format_data applied to raw results
\* response_mappings[method]: the keys of the mappings, in their order
PairTickerKeys == <<"currency_pair_first", "currency_pair_second", "last_price", "time">>
TickerKeys == <<"last_price", "time">>
PositionKeys == <<"position", "last_price">>

\* **kwargs: none, or the start of the tick and the arrival of the response
NoKwargs == [keys |-> <<>>, val |-> [k \in {} |-> Null]]
TickKwargs ==
    [keys |-> <<"start_time", "time">>,
     val |-> [k \in {"start_time", "time"} |->
                IF k = "start_time" THEN Time(100) ELSE Time(200)]]

\* raw results with one response, under None or under a pair: every
\* combination of what the mappings extract from it
SingleResponses(mapping_keys) ==
    {[order |-> <<c>>, body |-> [x \in {c} |-> d]] :
        c \in {NoneKey, 1},
        d \in [SeqRange(mapping_keys) -> Extracted] \cup {EmptyObject}}

\* the bodies of raw results with several pairs
SomeBodies(mapping_keys) ==
    LET keys == SeqRange(mapping_keys)
        first == mapping_keys[1]
        last == mapping_keys[Len(mapping_keys)]
    IN {EmptyObject,
        [k \in keys |-> TheNumber],
        [k \in keys |-> Column(MaxColLen)],
        [k \in keys |-> IF k = first THEN Null ELSE TheNumber],
        [k \in keys |-> IF k = last THEN Raises ELSE Column(1)]}

PairResponses(mapping_keys) ==
    UNION {{[order |-> o, body |-> b] : b \in [SeqRange(o) -> SomeBodies(mapping_keys)]} :
              o \in PairLists(MaxFormatPairs)}

\* a call format_data(method, (name, responses), **kwargs) that is to be made
FormatCall(mapping_keys, name, responses, kwargs) ==
    [call |-> "pending", mapping_keys |-> mapping_keys,
     response |-> [name |-> name, responses |-> responses], kwargs |-> kwargs]

InitFormat ==
    /\ exchanges = [o \in {"o1"} |->
                      NewExchange(YamlFile("ex1", NoPairTemplate, NoRateLimit, FALSE))]
    /\ task = [o \in {"o1"} |-> NoTask]
    /\ gets = [o \in {"o1"} |-> <<>>]
    /\ result = [o \in {"o1"} |-> NoResult]
    /\ now = 0
    /\ main = NoMain
    /\ lib = NoLib
    /\ \/ \E r \in SingleResponses(PairTickerKeys), kw \in {NoKwargs, TickKwargs} :
             fmt = FormatCall(PairTickerKeys, "ex1", r, kw)
       \/ \E mk \in {TickerKeys, PositionKeys}, n \in {"ex1", "ex2"} :
             \E r \in SingleResponses(mk) : fmt = FormatCall(mk, n, r, TickKwargs)
       \/ \E mk \in {PairTickerKeys, TickerKeys}, kw \in {NoKwargs, TickKwargs} :
             \E r \in PairResponses(mk) : fmt = FormatCall(mk, "ex1", r, kw)

FormatData ==
    /\ fmt.call = "pending"
    /\ fmt' = [call |-> "done", mapping_keys |-> fmt.mapping_keys,
               response |-> fmt.response, kwargs |-> fmt.kwargs,
               out |-> format_data(exchanges["o1"], fmt.mapping_keys, fmt.response,
                                   fmt.kwargs)]
    /\ UNCHANGED <<exchanges, task, gets, result, now, main, lib>>

NextFormat == FormatData

SpecFormat == InitFormat /\ [][NextFormat]_vars

\* ------------------------------------------ Exchange(yaml_file), by itself
\* rate_limit blocks with the window and the maximum, with and without the
\* keys `units` and `max` repeated at the top level of the yaml
RateLimitBlocks ==
    {[present |-> TRUE, units |-> u, max |-> m, top_units |-> tu, top_max |-> tm] :
        u \in 1..2, m \in -1..2, tu \in {0, 2}, tm \in {0, 1}}
    \cup {[present |-> FALSE, units |-> 0, max |-> 0, top_units |-> tu, top_max |-> tm] :
        tu \in {0, 2}, tm \in {0, 1}}

ConstructYamls ==
    {YamlFile("ex1", pt, rl, tc) : pt \in PairTemplates, rl \in RateLimitBlocks, tc \in BOOLEAN}

InitConstruct ==
    /\ exchanges = [o \in {} |-> NewExchange(YamlFile("", NoPairTemplate, NoRateLimit, FALSE))]
    /\ task = [o \in {} |-> NoTask]
    /\ gets = [o \in {} |-> <<>>]
    /\ result = [o \in {} |-> NoResult]
    /\ now = 0
    /\ main = NoMain
    /\ fmt = NoFormat
    /\ \E yaml_file \in ConstructYamls : lib = [call |-> "Exchange", yaml_file |-> yaml_file]

\* o1 = Exchange(yaml_file)
Construct ==
    /\ lib.call = "Exchange"
    /\ exchanges' = [o \in {"o1"} |-> NewExchange(lib.yaml_file)]
    /\ task' = [o \in {"o1"} |-> NoTask]
    /\ gets' = [o \in {"o1"} |-> <<>>]
    /\ result' = [o \in {"o1"} |-> NoResult]
    /\ lib' = [lib EXCEPT !.call = "constructed"]
    /\ UNCHANGED <<now, main, fmt>>

NextConstruct == Construct

SpecConstruct == InitConstruct /\ [][NextConstruct]_vars

\* ----------------------- requests with a parameter that names a function
\* the yaml with one more entry in the params block of request r
WithParam(yaml_file, r, name, entry) ==
    [yaml_file EXCEPT !.requests[r].params = @ \cup {<<name, entry>>}]

\* the ticker request takes a parameter `since` produced by a conversion
\* that needs no raw value
DeferredYamls ==
    {WithParam(YamlFile("ex1", pt, NoRateLimit, FALSE), "ticker", "since",
               FunctionParam(conversion)) :
        pt \in PairTemplates,
        conversion \in {<<"none", "now">>, <<"none", "nowstrptime">>}}

InitDeferred ==
    /\ \E yaml_file \in DeferredYamls : exchanges = [o \in {"o1"} |-> NewExchange(yaml_file)]
    /\ task = [o \in {"o1"} |-> NoTask]
    /\ gets = [o \in {"o1"} |-> <<>>]
    /\ result = [o \in {"o1"} |-> NoResult]
    /\ now = 0
    /\ main = NoMain
    /\ fmt = NoFormat
    /\ lib = NoLib

\* session.get(url=url, params=params) was called with a function among the
\* values of params: the call raises TypeError inside the try block
RequestGetRefused ==
    /\ \E o \in DOMAIN exchanges :
          /\ task[o].running
          /\ \E p \in gets[o][task[o].i].params : IsFunctionRef(p[2])
          /\ request_get_done(o, BadParams)
    /\ UNCHANGED <<main, fmt, lib>>

NextDeferred == RequestTicker \/ RequestGetRefused

SpecDeferred == InitDeferred /\ [][NextDeferred]_vars

\* ------------------------------- DatabaseHandler: resolving currency pairs
\* str.upper on the tokens that occur
Upper(tok) ==
    CASE tok = "btc" -> "BTC"
      [] tok = "eth" -> "ETH"
      [] tok = "usd" -> "USD"
      [] tok = "ex1" -> "EX1"
      [] tok = "ex2" -> "EX2"
      [] OTHER -> tok

\* the first character of a string
FirstChar(tok) ==
    CASE tok \in {"BTC", "B"} -> "B"
      [] tok \in {"ETH", "E"} -> "E"
      [] tok \in {"USD", "U"} -> "U"
      [] OTHER -> tok

\* Python's None among names
NoneValue == "<None>"

\* the rows of the tables Currency (by name) and ExchangeCurrencyPair: the
\* pairs of EX1 and one pair of EX2
Currencies == {"BTC", "ETH", "USD"}
PairTable ==
    {[id |-> p, exchange |-> "EX1", first |-> ExchangeCurrencyPair[p].first,
      second |-> ExchangeCurrencyPair[p].second] : p \in PairIds}
    \cup {[id |-> 4, exchange |-> "EX2", first |-> "BTC", second |-> "ETH"]}

\* a query's rows as the list of their ids, in id order
RECURSIVE IdsInOrder(_)
IdsInOrder(rows) ==
    IF rows = {} THEN <<>>
    ELSE LET least == CHOOSE r \in rows : \A q \in rows : r.id <= q.id
         IN <<least.id>> \o IdsInOrder(rows \ {least})

\* get_exchange_id and get_currency_id: the row whose name is name.upper()
get_exchange_id(table, exchange_name) ==
    IF \E r \in table : r.exchange = Upper(exchange_name)
    THEN Upper(exchange_name) ELSE NoneValue
get_currency_id(currency_name) ==
    IF Upper(currency_name) \in Currencies THEN Upper(currency_name) ELSE NoneValue

get_all_currency_pairs_from_exchange(table, exchange_name) ==
    IdsInOrder({r \in table : r.exchange = get_exchange_id(table, exchange_name)})

\* the pairs of the exchange whose first (second) currency is one of the names
RECURSIVE get_currency_pairs_with_currency(_, _, _, _, _)
get_currency_pairs_with_currency(table, column, exchange_name, currency_names, i) ==
    IF currency_names = NoneValue \/ i > Len(currency_names) THEN <<>>
    ELSE LET currency_name == currency_names[i]
             found == IF currency_name # NoneValue
                      THEN IdsInOrder({r \in table :
                               /\ r.exchange = get_exchange_id(table, exchange_name)
                               /\ r[column] = get_currency_id(currency_name)})
                      ELSE <<>>
         IN found \o get_currency_pairs_with_currency(table, column, exchange_name,
                                                      currency_names, i + 1)

\* value[0]: the first item of a list, the first character of a string
Subscript0(value) ==
    IF value.shape = "list" THEN value.name ELSE FirstChar(value.name)

\* get_currency_pairs: the pairs named by the dicts of the explicit list
RECURSIVE get_currency_pairs(_, _, _, _)
get_currency_pairs(table, exchange_name, currency_pairs, i) ==
    IF i > Len(currency_pairs) THEN <<>>
    ELSE LET first_currency == Subscript0(currency_pairs[i].first)
             second_currency == Subscript0(currency_pairs[i].second)
             found == IdsInOrder({r \in table :
                          /\ r.exchange = get_exchange_id(table, exchange_name)
                          /\ r.first = get_currency_id(first_currency)
                          /\ r.second = get_currency_id(second_currency)})
         IN found \o get_currency_pairs(table, exchange_name, currency_pairs, i + 1)

\* result: the first occurrence of every id of found_currency_pairs
RECURSIVE Deduplicated(_, _)
Deduplicated(found, result_list) ==
    IF found = <<>> THEN result_list
    ELSE Deduplicated(Tail(found),
                      IF \E k \in DOMAIN result_list : result_list[k] = Head(found)
                      THEN result_list ELSE Append(result_list, Head(found)))

collect_exchanges_currency_pairs(table, exchange_name, currency_pairs, first_currencies, second_currencies) ==
    LET listed == IF \E k \in DOMAIN currency_pairs : currency_pairs[k].kind = "all"
                  THEN get_all_currency_pairs_from_exchange(table, exchange_name)
                  ELSE IF currency_pairs[1].kind # "None"
                  THEN get_currency_pairs(table, exchange_name, currency_pairs, 1)
                  ELSE <<>>
        firsts == get_currency_pairs_with_currency(table, "first", exchange_name,
                                                   first_currencies, 1)
        seconds == get_currency_pairs_with_currency(table, "second", exchange_name,
                                                    second_currencies, 1)
    IN Deduplicated(listed \o firsts \o seconds, <<>>)

\* the items of a job's currency_pairs list: 'all', None, or a dict whose
\* values are strings (as the signature declares them) or one-item lists
NoName == [shape |-> "str", name |-> NoneValue]
AllItem == [kind |-> "all", first |-> NoName, second |-> NoName]
NoneItem == [kind |-> "None", first |-> NoName, second |-> NoName]
PairItem(shape, first, second) ==
    [kind |-> "dict", first |-> [shape |-> shape, name |-> first],
     second |-> [shape |-> shape, name |-> second]]
PairItems ==
    {PairItem("str", "BTC", "ETH"), PairItem("list", "BTC", "ETH"),
     PairItem("list", "eth", "usd")}

InitCollect ==
    /\ exchanges = [o \in {} |-> NewExchange(YamlFile("", NoPairTemplate, NoRateLimit, FALSE))]
    /\ task = [o \in {} |-> NoTask]
    /\ gets = [o \in {} |-> <<>>]
    /\ result = [o \in {} |-> NoResult]
    /\ now = 0
    /\ main = NoMain
    /\ fmt = NoFormat
    /\ \E exchange_name \in {"ex1", "ex2"},
          currency_pairs \in {<<AllItem>>, <<NoneItem>>}
                                \cup {s \in UNION {[1..n -> PairItems] : n \in 1..MaxListed} :
                                         \A a, b \in DOMAIN s : a # b => s[a] # s[b]},
          first_currencies \in {NoneValue, <<"BTC">>, <<"eth", "BTC">>},
          second_currencies \in {NoneValue, <<"USD">>, <<"usd", "DOGE">>} :
           lib = [call |-> "collect_exchanges_currency_pairs", done |-> FALSE,
                  exchange_name |-> exchange_name, currency_pairs |-> currency_pairs,
                  first_currencies |-> first_currencies,
                  second_currencies |-> second_currencies, out |-> <<>>]

CollectExchangesCurrencyPairs ==
    /\ lib.call = "collect_exchanges_currency_pairs"
    /\ ~lib.done
    /\ lib' = [lib EXCEPT !.done = TRUE,
                           !.out = collect_exchanges_currency_pairs(
                                       PairTable, lib.exchange_name, lib.currency_pairs,
                                       lib.first_currencies, lib.second_currencies)]
    /\ UNCHANGED <<exchanges, task, gets, result, now, main, fmt>>

NextCollect == CollectExchangesCurrencyPairs

SpecCollect == InitCollect /\ [][NextCollect]_vars

\* ------------------------- DatabaseHandler: session_scope and persist_tickers
\* the rows of format_data handed to persist_tickers: ticker[0] is the
\* exchange name, ticker[3] and ticker[4] the names of the two currencies,
\* ticker[5] the last price
TickerRows ==
    {[exchange |-> "ex1", first |-> f, second |-> s, last_price |-> 7] :
        f \in {"BTC", "eth", NoneValue}, s \in {"ETH", "USD", NoneValue}}

\* persist_exchange_currency_pair: the pair is added, in a session of its own,
\* when the exchange has no such pair yet
persist_exchange_currency_pair(table, exchange_name, first_currency_name, second_currency_name) ==
    IF \E r \in table : /\ r.exchange = Upper(exchange_name)
                        /\ r.first = Upper(first_currency_name)
                        /\ r.second = Upper(second_currency_name)
    THEN table
    ELSE table \cup {[id |-> MaxOf({r.id : r \in table}) + 1,
                      exchange |-> Upper(exchange_name),
                      first |-> Upper(first_currency_name),
                      second |-> Upper(second_currency_name)]}

\* get_exchange_currency_pair: None when a name is None; else the pair is
\* first persisted and then queried.  Returns the table and the id found.
get_exchange_currency_pair(table, exchange_name, first_currency_name, second_currency_name) ==
    IF NoneValue \in {exchange_name, first_currency_name, second_currency_name}
    THEN [table |-> table, id |-> NoneKey]
    ELSE LET persisted == persist_exchange_currency_pair(
                              table, exchange_name, first_currency_name,
                              second_currency_name)
             cp == CHOOSE r \in persisted :
                       /\ r.exchange = Upper(exchange_name)
                       /\ r.first = Upper(first_currency_name)
                       /\ r.second = Upper(second_currency_name)
         IN [table |-> persisted, id |-> cp.id]

\* (mutant) every row whose pair resolves is added
AddsTickerUnfiltered(exchange_currency_pair, queried_currency_pairs) ==
    exchange_currency_pair # NoneKey

\* the two conditions under which a Ticker is added to the session
AddsTicker(exchange_currency_pair, queried_currency_pairs) ==
    /\ exchange_currency_pair # NoneKey
    /\ \E q_cp \in queried_currency_pairs : exchange_currency_pair = q_cp

\* the loop of persist_tickers from row i on: the pair table and the Tickers
\* added to the session
RECURSIVE PersistLoop(_, _, _, _, _)
PersistLoop(queried_currency_pairs, tickers, i, table, added) ==
    IF i > Len(tickers) THEN [table |-> table, added |-> added]
    ELSE LET ticker == tickers[i]
             got == get_exchange_currency_pair(table, ticker.exchange, ticker.first,
                                               ticker.second)
         IN PersistLoop(queried_currency_pairs, tickers, i + 1, got.table,
                        IF AddsTicker(got.id, queried_currency_pairs)
                        THEN Append(added, [exchange_pair_id |-> got.id,
                                            last_price |-> ticker.last_price, row |-> i])
                        ELSE added)

\* the print after the loop reads `ticker`, which is unbound when the loop
\* body never ran
BlockOutcome(tickers) == IF tickers = <<>> THEN "UnboundLocalError" ELSE "ok"

\* (mutant) the exception is rolled back and swallowed
session_scope_exit_swallowing(block, commit) ==
    IF block = "ok" /\ commit = "ok"
    THEN [log |-> <<"commit", "close">>, out |-> "returned"]
    ELSE [log |-> (IF block = "ok" THEN <<"commit raises">> ELSE <<>>)
                  \o <<"rollback", "close">>,
          out |-> "returned"]

\* session_scope after its yield: the block has ended with `block`, and
\* session.commit(), if it is reached, ends with `commit`.  Returns the calls
\* made on the session and what reaches the caller.
session_scope_exit(block, commit) ==
    IF block = "ok" /\ commit = "ok"
    THEN [log |-> <<"commit", "close">>, out |-> "returned"]
    ELSE [log |-> (IF block = "ok" THEN <<"commit raises">> ELSE <<>>)
                  \o <<"rollback", "close">>,
          out |-> IF block = "ok" THEN commit ELSE block]

InitStore ==
    /\ exchanges = [o \in {} |-> NewExchange(YamlFile("", NoPairTemplate, NoRateLimit, FALSE))]
    /\ task = [o \in {} |-> NoTask]
    /\ gets = [o \in {} |-> <<>>]
    /\ result = [o \in {} |-> NoResult]
    /\ now = 0
    /\ main = NoMain
    /\ fmt = NoFormat
    /\ \E queried_currency_pairs \in SUBSET PairIds,
          tickers \in UNION {[1..n -> TickerRows] : n \in 0..MaxBatch} :
           lib = [call |-> "persist_tickers", pc |-> "called",
                  queried_currency_pairs |-> queried_currency_pairs, tickers |-> tickers,
                  table |-> PairTable, added |-> <<>>, stored |-> <<>>,
                  block |-> "", commit |-> "", log |-> <<>>, out |-> ""]

\* `with self.session_scope() as session:` up to the yield
session_scope_enter ==
    /\ lib.call = "persist_tickers" /\ lib.pc = "called"
    /\ lib' = [lib EXCEPT !.pc = "yielded", !.log = <<"sessionFactory">>]
    /\ UNCHANGED <<exchanges, task, gets, result, now, main, fmt>>

\* the block of persist_tickers: the loop and the print
persist_tickers_block ==
    /\ lib.call = "persist_tickers" /\ lib.pc = "yielded"
    /\ LET done == PersistLoop(lib.queried_currency_pairs, lib.tickers, 1, lib.table, <<>>)
       IN lib' = [lib EXCEPT !.pc = "block_done", !.table = done.table,
                             !.added = done.added, !.block = BlockOutcome(lib.tickers)]
    /\ UNCHANGED <<exchanges, task, gets, result, now, main, fmt>>

\* the rest of session_scope; a commit writes the added Tickers, a rollback
\* discards them
session_scope_leave(commit) ==
    /\ lib.call = "persist_tickers" /\ lib.pc = "block_done"
    /\ LET exit == session_scope_exit(lib.block, commit)
       IN lib' = [lib EXCEPT !.pc = "left", !.log = @ \o exit.log, !.out = exit.out,
                             !.commit = IF lib.block = "ok" THEN commit ELSE "",
                             !.stored = IF exit.log[1] = "commit" THEN lib.added ELSE @]
    /\ UNCHANGED <<exchanges, task, gets, result, now, main, fmt>>

SessionScopeEnter == session_scope_enter
PersistTickersBlock == persist_tickers_block
SessionScopeLeave == \E commit \in {"ok", "OperationalError"} : session_scope_leave(commit)

NextStore == SessionScopeEnter \/ PersistTickersBlock \/ SessionScopeLeave

SpecStore == InitStore /\ [][NextStore]_vars

\* ------------------------------------------- utilities.py: TYPE_CONVERSION
Bool(b) == [kind |-> "bool", val |-> <<b>>]

UpperAll(str) == [k \in DOMAIN str |-> Upper(str[k])]

\* int(string) and float(string) on decimal digits; anything else raises
\* ValueError
Digits == <<"0", "1", "2", "3", "4", "5", "6", "7", "8", "9">>
RECURSIVE NumberOf(_, _)
NumberOf(chars, acc) ==
    IF chars = <<>> THEN Num(acc)
    ELSE IF \E d \in DOMAIN Digits : Digits[d] = Head(chars)
    THEN NumberOf(Tail(chars), 10 * acc + (CHOOSE d \in DOMAIN Digits : Digits[d] = Head(chars)) - 1)
    ELSE Raises
ParseNumber(chars) == IF chars = <<>> THEN Raises ELSE NumberOf(chars, 0)

\* string.split(sep): the parts between the separators
RECURSIVE SplitParts(_, _)
SplitParts(chars, sep) ==
    IF \E k \in DOMAIN chars : chars[k] = sep
    THEN LET k == CHOOSE j \in DOMAIN chars :
                      chars[j] = sep /\ \A i \in 1..(j - 1) : chars[i] # sep
         IN <<SubSeq(chars, 1, k - 1)>> \o SplitParts(SubSeq(chars, k + 1, Len(chars)), sep)
    ELSE <<chars>>

\* list[index] for an index from 0; IndexError past the end
Subscript(parts, index) ==
    IF index + 1 \in DOMAIN parts THEN Str(parts[index + 1]) ELSE Raises

\* the format "%Y-%m-%d" of the days from the epoch on
DateFormat == <<"%Y-%m-%d">>
DateString(day) ==
    CASE day = 0 -> <<"1970-01-01">>
      [] day = 1 -> <<"1970-01-02">>
      [] OTHER -> <<"1970-01-03">>
strftime(t, format) ==
    IF format = DateFormat THEN Str(DateString(t \div 86400)) ELSE Str(format)
strptime(chars, format) ==
    IF format = DateFormat /\ \E day \in 0..2 : DateString(day) = chars
    THEN Time(86400 * (CHOOSE day \in 0..2 : DateString(day) = chars))
    ELSE Raises

\* (mutant) the offset of local time is the one of the moment of the call
fromtimestamp_offset_now(timestamp, clock) == Time(timestamp + 3600 + clock)

\* datetime.fromtimestamp: local time, one hour ahead of UTC
fromtimestamp(timestamp, clock) == Time(timestamp + 3600)

\* TYPE_CONVERSION[key]['function'](value, *args), called when the clock shows
\* `clock`
TYPE_CONVERSION(key, value, args, clock) ==
    LET raw == value.val[1]
    IN CASE key = <<"bool", "int">> -> Num(IF raw THEN 1 ELSE 0)
         [] key = <<"int", "bool">> -> Bool(raw # 0)
         [] key \in {<<"int", "fromtimestamp">>, <<"float", "fromtimestamp">>} ->
                fromtimestamp(raw, clock)
         [] key \in {<<"int", "utcfromtimestamp">>, <<"float", "utcfromtimestamp">>} ->
                Time(raw)
         [] key = <<"int", "fromtimestampms">> -> fromtimestamp(raw \div 1000, clock)
         [] key = <<"int", "fromtimestampns">> -> fromtimestamp(raw \div 1000000, clock)
         [] key = <<"str", "bool">> -> Bool(LowerAll(value.val) = <<"true">>)
         [] key \in {<<"str", "int">>, <<"str", "float">>} -> ParseNumber(value.val)
         [] key = <<"str", "floatNA">> ->
                IF value.val = <<"N/A">> THEN Null ELSE ParseNumber(value.val)
         [] key = <<"str", "strptime">> -> strptime(value.val, args[1].val)
         [] key = <<"str", "split">> ->
                Subscript(SplitParts(value.val, args[1].val[1]), args[2].val[1])
         [] key = <<"str", "splitupper">> ->
                LET part == Subscript(SplitParts(value.val, args[1].val[1]), args[2].val[1])
                IN IF part = Raises THEN Raises ELSE Str(UpperAll(part.val))
         [] key = <<"str", "slice">> ->
                Str(SubSeq(value.val, args[1].val[1] + 1, args[2].val[1]))
         [] key = <<"str", "upper">> -> Str(UpperAll(value.val))
         [] key = <<"str", "lower">> -> Str(LowerAll(value.val))
         [] key = <<"datetime", "strftime">> -> strftime(raw, args[1].val)
         [] key = <<"datetime", "totimestamp">> -> Num(raw - 3600)
         [] key = <<"datetime", "totimestampms">> -> Num((raw - 3600) * 1000)
         [] key = <<"datetime", "utctotimestamp">> -> Num(raw)
         [] key = <<"none", "nowstrptime">> -> Time(86400 * ((clock + 3600) \div 86400))
         [] key = <<"none", "now">> -> Time(clock + 3600)
         [] key = <<"none", "constant">> -> args[1]

\* raw values and extra parameters of the source type of each key
ConversionInputs(key) ==
    CASE key[1] = "bool" -> {<<Bool(b), <<>>>> : b \in BOOLEAN}
      [] key[1] \in {"int", "float"} ->
             {<<Num(n), <<>>>> : n \in {0, 1000, 86400, 86400000}}
      [] key \in {<<"str", "split">>, <<"str", "splitupper">>} ->
             {<<Str(<<"btc", "_", "eth">>), <<Str(<<"_">>), Num(n)>>>> : n \in 0..2}
      [] key = <<"str", "slice">> ->
             {<<Str(<<"B", "T", "C">>), <<Num(a), Num(b)>>>> : a \in 0..1, b \in 2..3}
      [] key = <<"str", "strptime">> ->
             {<<Str(chars), <<Str(DateFormat)>>>> : chars \in {DateString(1), <<"N/A">>}}
      [] key[1] = "str" ->
             {<<Str(chars), <<>>>> : chars \in {<<"4", "2">>, <<"N/A">>, <<"TRUE">>, <<"btc">>}}
      [] key = <<"datetime", "strftime">> ->
             {<<Time(t), <<Str(format)>>>> : t \in {3600, 90000}, format \in {DateFormat, <<"T">>}}
      [] key[1] = "datetime" -> {<<Time(t), <<>>>> : t \in {3600, 90000}}
      [] key = <<"none", "constant">> -> {<<Null, <<c>>>> : c \in {TheNumber, TheString}}
      [] OTHER -> {<<Null, <<>>>>}

\* the tuples that are keys of TYPE_CONVERSION
ConversionKeys ==
    {<<"bool", "int">>, <<"int", "bool">>, <<"int", "fromtimestamp">>,
     <<"int", "utcfromtimestamp">>, <<"int", "fromtimestampms">>,
     <<"int", "fromtimestampns">>, <<"float", "fromtimestamp">>,
     <<"float", "utcfromtimestamp">>, <<"str", "bool">>, <<"str", "int">>,
     <<"str", "float">>, <<"str", "floatNA">>, <<"str", "strptime">>, <<"str", "split">>,
     <<"str", "splitupper">>, <<"str", "slice">>, <<"str", "upper">>, <<"str", "lower">>,
     <<"datetime", "strftime">>, <<"datetime", "totimestamp">>,
     <<"datetime", "totimestampms">>, <<"datetime", "utctotimestamp">>,
     <<"none", "nowstrptime">>, <<"none", "now">>, <<"none", "constant">>}

InitConvert ==
    /\ exchanges = [o \in {} |-> NewExchange(YamlFile("", NoPairTemplate, NoRateLimit, FALSE))]
    /\ task = [o \in {} |-> NoTask]
    /\ gets = [o \in {} |-> <<>>]
    /\ result = [o \in {} |-> NoResult]
    /\ now = 0
    /\ main = NoMain
    /\ fmt = NoFormat
    /\ \E key \in ConversionKeys :
          \E input \in ConversionInputs(key) :
             lib = [call |-> "convert", key |-> key, value |-> input[1], args |-> input[2],
                    elapsed |-> 0, out |-> <<>>]

\* time passes between two applications: a second, or a day
Elapse ==
    /\ lib.call = "convert"
    /\ lib.elapsed < MaxElapse
    /\ \E seconds \in {1, 86400} : now' = now + seconds
    /\ lib' = [lib EXCEPT !.elapsed = @ + 1]
    /\ UNCHANGED <<exchanges, task, gets, result, main, fmt>>

\* the conversion is applied to the value once more
Convert ==
    /\ lib.call = "convert"
    /\ Len(lib.out) < MaxApplications
    /\ lib' = [lib EXCEPT !.out = Append(@, TYPE_CONVERSION(lib.key, lib.value, lib.args, now))]
    /\ UNCHANGED <<exchanges, task, gets, result, now, main, fmt>>

NextConvert == Elapse \/ Convert

SpecConvert == InitConvert /\ [][NextConvert]_vars

\* ------------------------------- DatabaseHandler: persist_historic_rates
\* the formatted historic rates: historic_rate[0] is the exchange_pair_id,
\* historic_rate[1] the timestamp; `close` stands for the five values
HistoricRates ==
    {[exchange_pair_id |-> r[1], timestamp |-> r[2], close |-> r[3]] :
        r \in {q \in (1..2) \X (0..1) \X {10, 11} : q[2] = 1 => q[3] = 10}}

\* the query of line 389: a stored rate of the same pair and timestamp
tuple_exists(store, historic_rate) ==
    \E s \in store : /\ s.exchange_pair_id = historic_rate.exchange_pair_id
                     /\ s.timestamp = historic_rate.timestamp

\* the for-loop from rate k on, one session_scope per rate; the commit of the
\* scope of rate `failing` raises (0: none does), which ends the loop in the
\* except clause
RECURSIVE HistoricLoop(_, _, _, _, _)
HistoricLoop(historic_rates, k, failing, store, i) ==
    IF k > Len(historic_rates) THEN [store |-> store, i |-> i, caught |-> FALSE]
    ELSE LET historic_rate == historic_rates[k]
             exists == tuple_exists(store, historic_rate)
             added == IF exists THEN i ELSE i + 1
             exit == session_scope_exit(
                         "ok", IF k = failing THEN "OperationalError" ELSE "ok")
         IN IF exit.out # "returned"
            THEN [store |-> store, i |-> added, caught |-> TRUE]
            ELSE HistoricLoop(historic_rates, k + 1, failing,
                              IF exists THEN store ELSE store \cup {historic_rate},
                              added)

\* `finally: session.close()`: the name session is bound by the with statement
\* of the loop body, so it is unbound when the loop body never ran
FinallyClose(historic_rates) ==
    IF historic_rates = <<>> THEN "UnboundLocalError" ELSE "returned"

InitHistoric ==
    /\ exchanges = [o \in {} |-> NewExchange(YamlFile("", NoPairTemplate, NoRateLimit, FALSE))]
    /\ task = [o \in {} |-> NoTask]
    /\ gets = [o \in {} |-> <<>>]
    /\ result = [o \in {} |-> NoResult]
    /\ now = 0
    /\ main = NoMain
    /\ fmt = NoFormat
    /\ lib = [call |-> "persist_historic_rates", historic_rates |-> <<>>, failing |-> 0,
              store |-> {}, i |-> 0, caught |-> FALSE, out |-> "none"]

\* one call of persist_historic_rates on the store the earlier calls left
persist_historic_rates(historic_rates, failing) ==
    /\ lib.call = "persist_historic_rates"
    /\ LET done == HistoricLoop(historic_rates, 1, failing, lib.store, 0)
       IN lib' = [lib EXCEPT !.historic_rates = historic_rates, !.failing = failing,
                             !.store = done.store, !.i = done.i,
                             !.caught = done.caught,
                             !.out = FinallyClose(historic_rates)]
    /\ UNCHANGED <<exchanges, task, gets, result, now, main, fmt>>

PersistHistoricRates ==
    \E historic_rates \in UNION {[1..n -> HistoricRates] : n \in 0..MaxRates} :
        \E failing \in 0..Len(historic_rates) :
            persist_historic_rates(historic_rates, failing)

NextHistoric == PersistHistoricRates

SpecHistoric == InitHistoric /\ [][NextHistoric]_vars

\* ------------------------------ main.py: initialize_jobs on a job config
\* the yaml files of the folder, by file name, as get_exchange_names sorts them
AvailableNames == <<"ex1", "ex2">>
JobNames == <<"ticker", "trades">>

\* yaml_loader: the content of the yaml file of that name; open() raises for
\* a name without a file
HasYaml(exchange_name) == exchange_name \in SeqRange(AvailableNames)
yaml_loader(exchange_name) == YamlFile(exchange_name, UrlPairTemplate, NoRateLimit, TRUE)

RECURSIVE Filter(_, _)
Filter(names, excluded) ==
    IF names = <<>> THEN <<>>
    ELSE (IF names[1] \in SeqRange(excluded) THEN <<>> ELSE <<names[1]>>)
         \o Filter(Tail(names), excluded)

\* (mutant) the names under 'excluded' are not taken out
exchange_names_unfiltered(job_params) ==
    IF job_params.exchanges = <<>> THEN [raises |-> TRUE, names |-> <<>>]
    ELSE [raises |-> FALSE,
          names |-> IF job_params.exchanges[1] # "all" THEN job_params.exchanges
                    ELSE AvailableNames]

\* lines 42-46: the configured names, or every name with a yaml when the first
\* one is 'all', without the excluded ones; [0] of an empty list raises
exchange_names(job_params) ==
    IF job_params.exchanges = <<>> THEN [raises |-> TRUE, names |-> <<>>]
    ELSE LET names == IF job_params.exchanges[1] # "all" THEN job_params.exchanges
                      ELSE AvailableNames
         IN [raises |-> FALSE,
             names |-> IF job_params.excluded # <<>>
                       THEN Filter(names, job_params.excluded)
                       ELSE names]

\* lines 38-60: the list of Jobs, each with its name and its new Exchange
\* objects; a step of the loop that raises ends the call
RECURSIVE JobsLoop(_, _, _)
JobsLoop(job_config, i, jobs) ==
    IF i > Len(job_config) THEN [raises |-> FALSE, jobs |-> jobs]
    ELSE LET selected == exchange_names(job_config[i])
             names == selected.names
         IN IF selected.raises \/ \E n \in 1..Len(names) : ~HasYaml(names[n])
            THEN [raises |-> TRUE, jobs |-> <<>>]
            ELSE JobsLoop(job_config, i + 1,
                          Append(jobs,
                                 [name |-> job_config[i].name,
                                  exchanges_with_pairs |->
                                      [n \in 1..Len(names) |->
                                          NewExchange(yaml_loader(names[n]))]]))

JobParams(name) ==
    {[name |-> name, exchanges |-> e, excluded |-> x] :
        e \in UNION {[1..n -> {"all"} \cup SeqRange(AvailableNames)] :
                        n \in 0..MaxConfigured},
        x \in {<<>>, <<"ex1">>, <<"ex2">>, <<"ex1", "ex2">>}}

InitJobs ==
    /\ exchanges = [o \in {} |-> NewExchange(YamlFile("", NoPairTemplate, NoRateLimit, FALSE))]
    /\ task = [o \in {} |-> NoTask]
    /\ gets = [o \in {} |-> <<>>]
    /\ result = [o \in {} |-> NoResult]
    /\ now = 0
    /\ main = NoMain
    /\ fmt = NoFormat
    /\ \E first \in JobParams(JobNames[1]),
          rest \in {<<>>} \cup {<<j>> : j \in JobParams(JobNames[2])} :
           lib = [call |-> "initialize_jobs", pc |-> "called",
                  job_config |-> <<first>> \o rest, jobs |-> <<>>]

\* the call of line 93
initialize_jobs_call ==
    /\ lib.call = "initialize_jobs" /\ lib.pc = "called"
    /\ LET done == JobsLoop(lib.job_config, 1, <<>>)
       IN lib' = [lib EXCEPT !.pc = IF done.raises THEN "raised" ELSE "returned",
                             !.jobs = done.jobs]
    /\ UNCHANGED <<exchanges, task, gets, result, now, main, fmt>>

NextJobs == initialize_jobs_call

SpecJobs == InitJobs /\ [][NextJobs]_vars

\* --------------------- format_data on mappings with one currency field only
FirstOnlyKeys == <<"currency_pair_first", "last_price">>
SecondOnlyKeys == <<"currency_pair_second", "last_price">>
BothKeys == <<"currency_pair_first", "currency_pair_second">>

InitPairId ==
    /\ exchanges = [o \in {"o1"} |->
                      NewExchange(YamlFile("ex1", NoPairTemplate, NoRateLimit, FALSE))]
    /\ task = [o \in {"o1"} |-> NoTask]
    /\ gets = [o \in {"o1"} |-> <<>>]
    /\ result = [o \in {"o1"} |-> NoResult]
    /\ now = 0
    /\ main = NoMain
    /\ lib = NoLib
    /\ \E mk \in {TickerKeys, FirstOnlyKeys, SecondOnlyKeys, BothKeys},
          kw \in {NoKwargs, TickKwargs} :
           \E r \in SingleResponses(mk) : fmt = FormatCall(mk, "ex1", r, kw)

SpecPairId == InitPairId /\ [][NextFormat]_vars

\* ------------------------------------------ runner.py: get_config_template
TemplateNames == {"csv_export_template.yaml", "request_template.yaml"}

\* what the user config folder holds under a template name: nothing, a copy of
\* the template, or a file that differs from it
FileStates == {"absent", "template", "outdated", "edited"}

\* check_path(path, check_only): returns False when the folder is missing and
\* check_only is set; every other path through the function ends without a
\* return statement, which returns None.  copies tells whether copy_resources
\* is called.
check_path(resources_exists, check_only) ==
    IF ~resources_exists
    THEN IF check_only THEN [returns |-> "False", copies |-> FALSE]
         ELSE [returns |-> "None", copies |-> TRUE]
    ELSE [returns |-> "None", copies |-> FALSE]

\* bool(value) of the values check_path returns
Truthy(value) == value \notin {"False", "None"}

InitTemplate ==
    /\ exchanges = [o \in {} |-> NewExchange(YamlFile("", NoPairTemplate, NoRateLimit, FALSE))]
    /\ task = [o \in {} |-> NoTask]
    /\ gets = [o \in {} |-> <<>>]
    /\ result = [o \in {} |-> NoResult]
    /\ now = 0
    /\ main = NoMain
    /\ fmt = NoFormat
    /\ \E csv \in BOOLEAN, resources_exists \in BOOLEAN,
          files \in [TemplateNames -> FileStates] :
           lib = [call |-> "get_config_template", pc |-> "called", csv |-> csv,
                  resources_exists |-> resources_exists, before |-> files,
                  files |-> files, filename |-> "", path_exists |-> "", printed |-> ""]

\* lines 151-156: the file name and the call of check_path
get_config_template_check ==
    /\ lib.call = "get_config_template" /\ lib.pc = "called"
    /\ lib' = [lib EXCEPT
                  !.pc = "checked",
                  !.filename = IF lib.csv THEN "csv_export_template.yaml"
                               ELSE "request_template.yaml",
                  !.path_exists = check_path(lib.resources_exists, TRUE).returns]
    /\ UNCHANGED <<exchanges, task, gets, result, now, main, fmt>>

\* lines 157-174: the refusal, or the removal of the old copy and the copy
get_config_template_copy ==
    /\ lib.call = "get_config_template" /\ lib.pc = "checked"
    /\ IF ~Truthy(lib.path_exists)
       THEN lib' = [lib EXCEPT !.pc = "returned", !.printed = "Call 'runner.update_maps()'"]
       ELSE lib' = [lib EXCEPT !.pc = "returned",
                               !.files = [@ EXCEPT ![lib.filename] = "template"],
                               !.printed = "Created new config template."]
    /\ UNCHANGED <<exchanges, task, gets, result, now, main, fmt>>

NextTemplate == get_config_template_check \/ get_config_template_copy

SpecTemplate == InitTemplate /\ [][NextTemplate]_vars

\* ------------------- the tuple Exchange.request returns, given to format_data
\* `return datetime.utcnow(), self.name, responses`, by position
ReturnedTuple(res) == <<Time(res.at), Str(<<res.name>>), res.payload>>

\* the first statements of format_data on such a tuple: response[0] is compared
\* with self.name; if they were equal, responses = response[1] is the name, a
\* str, and responses.keys() raises AttributeError
format_data_head(ex, response) ==
    IF response[1] # Str(<<ex.name>>) THEN "None" ELSE "raised"

\* format_data('ticker', result) on the tuple the last request call returned
format_data_of_request(o) ==
    /\ ~task[o].running /\ task[o].call = "request"
    /\ result[o].kind = "tuple"
    /\ fmt' = [call |-> "done", mapping_keys |-> TickerKeys,
               response |-> ReturnedTuple(result[o]), kwargs |-> NoKwargs,
               out |-> [status |-> format_data_head(exchanges[o],
                                                    ReturnedTuple(result[o]))]]
    /\ UNCHANGED <<exchanges, task, gets, result, now, main, lib>>

FormatDataOfRequest == \E o \in DOMAIN exchanges : format_data_of_request(o)

NextRaw == RequestTicker \/ RequestGetDone \/ FormatDataOfRequest

SpecRaw == InitPacing /\ [][NextRaw]_vars

\* ------------------------------------------------------------ the claims
Requested(o) == task[o].call = "request" /\ RequestConfigured(exchanges[o], task[o].request_name)
Finished(o) == task[o].call = "request" /\ ~task[o].running
WithTemplate(o) == Requested(o) /\ PairFormattingNeeded(exchanges[o], task[o].request_name)
WithoutTemplate(o) == Requested(o) /\ ~PairFormattingNeeded(exchanges[o], task[o].request_name)

\* C1 (as claimed): a request without pair_template issues exactly one GET for
\* any non-empty pair list, whether that GET succeeds or fails, and a parsed
\* response is stored under None.
C1_ExactlyOneGet ==
    \A o \in DOMAIN exchanges :
        (WithoutTemplate(o) /\ task[o].currency_pairs # <<>>) =>
            /\ Len(gets[o]) = 1
            /\ (Finished(o) /\ gets[o][1].outcome = OK) =>
                   /\ DOMAIN result[o].payload = {NoneKey}
                   /\ result[o].payload[NoneKey] = Body(gets[o][1])

\* the rendering of pair cp that the compiled spec of the call asks for
IssuedFor(o, get) ==
    LET spec == exchanges[o].request_urls[task[o].request_name]
        pair_formatted == apply_currency_pair_format(spec.pair_template, get.cp)
    IN IF spec.pair_template.alias # ""
       THEN /\ <<spec.pair_template.alias, pair_formatted>> \in get.params
            /\ get.url = spec.url
       ELSE get.url = FormatUrl(spec.url, pair_formatted)

\* C2: with a pair_template, one GET is dispatched per pair of the list, in
\* list order, each rendered for its own pair, and every parsed response is
\* stored under the pair it was requested for, never under another pair or None.
C2_OneGetPerPair ==
    \A o \in DOMAIN exchanges :
        (WithTemplate(o) /\ result[o].kind # "raised") =>
            /\ Len(gets[o]) = IF task[o].running THEN task[o].i
                              ELSE Len(task[o].currency_pairs)
            /\ \A k \in DOMAIN gets[o] :
                   /\ gets[o][k].cp = task[o].currency_pairs[k]
                   /\ IssuedFor(o, gets[o][k])
            /\ LET stored == IF task[o].running THEN task[o].responses
                             ELSE result[o].payload
               IN /\ DOMAIN stored =
                        {gets[o][k].cp : k \in {j \in DOMAIN gets[o] : gets[o][j].outcome = OK}}
                  /\ \A k \in DOMAIN gets[o] :
                         gets[o][k].outcome = OK => stored[gets[o][k].cp] = Body(gets[o][k])

C2_Witness ==
    \E o \in DOMAIN exchanges :
        /\ WithTemplate(o) /\ Finished(o) /\ result[o].kind = "tuple"
        /\ Len(gets[o]) = 3
        /\ DOMAIN result[o].payload = {task[o].currency_pairs[1], task[o].currency_pairs[3]}
        /\ exchanges[o].request_urls["ticker"].pair_template.alias # ""

\* C3: a GET that fails with a connection error adds exactly 1 to
\* exception_counter and sets consecutive_exception; the GETs of the remaining
\* pairs are still dispatched; the failed pair has no entry in the mapping.
C3_Step(o) ==
    (task[o].running /\ task[o].call = "request"
        /\ gets'[o][task[o].i].outcome = ConnErr) =>
        /\ exchanges'[o].exception_counter = exchanges[o].exception_counter + 1
        /\ exchanges'[o].consecutive_exception
        /\ IF task[o].i < Len(task[o].currency_pairs)
           THEN /\ task'[o].running
                /\ Len(gets'[o]) = task[o].i + 1
                /\ gets'[o][task[o].i + 1].cp = task[o].currency_pairs[task[o].i + 1]
           ELSE /\ result'[o].kind = "tuple"
                /\ \A k \in DOMAIN gets'[o] :
                       gets'[o][k].outcome = ConnErr =>
                           gets'[o][k].cp \notin DOMAIN result'[o].payload

\* C3: every step in which a GET of request fails with a connection error
\* counts it once, sets the flag and goes on with the remaining pairs.
C3_ConnectionFailureCounted == [][\A o \in DOMAIN exchanges : C3_Step(o)]_vars

C3_Witness ==
    \E o \in DOMAIN exchanges :
        /\ Finished(o) /\ result[o].kind = "tuple" /\ Len(gets[o]) = 3
        /\ gets[o][1].outcome = ConnErr /\ gets[o][2].outcome = OK
        /\ gets[o][3].outcome = ConnErr
        /\ exchanges[o].exception_counter = 2

\* C4 (as claimed): a GET that times out is counted like a connection failure:
\* exception_counter grows by 1 and consecutive_exception is set.
C4_Step(o) ==
    (task[o].running /\ task[o].call = "request"
        /\ gets'[o][task[o].i].outcome = Timeout) =>
        /\ exchanges'[o].exception_counter = exchanges[o].exception_counter + 1
        /\ exchanges'[o].consecutive_exception

\* C4 (as claimed): every step in which a GET of request times out counts it
\* like a connection failure.
C4_TimeoutCounted == [][\A o \in DOMAIN exchanges : C4_Step(o)]_vars


\* C5: no per-pair failure makes request raise.  Whatever the outcomes of the
\* GETs (parsed body, connection failure, unparsable body), a call on a
\* configured request with a well-formed pair_template returns the tuple
\* (arrival time, exchange name, mapping); a pair whose body could not be
\* parsed is absent from the mapping, and that failure leaves
\* exception_counter and consecutive_exception as they were.
C5_Step(o) ==
    (task'[o].call = "request"
        /\ RequestConfigured(exchanges[o], task'[o].request_name)
        /\ ~FormatRaises(exchanges[o].request_urls[task'[o].request_name].pair_template)
        /\ ~task'[o].running) =>
        /\ result'[o].kind = "tuple"
        /\ result'[o].name = exchanges[o].name
        /\ result'[o].at = now'
        /\ \A k \in DOMAIN gets'[o] :
               gets'[o][k].outcome \in {BadBody, ConnErr} =>
                   gets'[o][k].cp \notin DOMAIN result'[o].payload
        /\ (task[o].running /\ gets'[o][task[o].i].outcome = BadBody) =>
               /\ exchanges'[o].exception_counter = exchanges[o].exception_counter
               /\ exchanges'[o].consecutive_exception = exchanges[o].consecutive_exception

Unconfigured(o) ==
    task[o].call = "request" /\ ~RequestConfigured(exchanges[o], task[o].request_name)

\* C6 (as claimed): request with a name that is not in the compiled request
\* specs reports a hard error to the caller and issues no GET.
C6_HardError ==
    \A o \in DOMAIN exchanges :
        Unconfigured(o) => (result[o].kind = "raised" /\ gets[o] = <<>>)

\* C6 (amended): such a call issues no GET and returns None to its caller; it
\* raises nothing and returns no tuple.
C6_ReturnsNone ==
    \A o \in DOMAIN exchanges :
        Unconfigured(o) =>
            (result[o].kind = "None" /\ gets[o] = <<>> /\ ~task[o].running)

C6_Witness ==
    \E o \in DOMAIN exchanges :
        Unconfigured(o) /\ task[o].currency_pairs # <<>> /\ result[o].kind = "None"


\* three GETs in a row of the call on o failed with a connection error
ThreeConsecutiveFailures(o) ==
    \E k \in DOMAIN gets[o] :
        /\ k + 2 \in DOMAIN gets[o]
        /\ \A j \in k..(k + 2) : gets[o][j].op = "request" /\ gets[o][j].outcome = ConnErr

\* C7 (as claimed): after three consecutive transport failures the exchange's
\* active flag is false; a successful test_connection leaves it active with
\* consecutive_exception reset; and active is false only after at least three
\* transport failures.
C7_HealthTransition ==
    \A o \in DOMAIN exchanges :
        /\ (Finished(o) /\ ThreeConsecutiveFailures(o)) => ~exchanges[o].active_flag
        /\ (task[o].call = "test_connection" /\ result[o].kind = "probe"
               /\ result[o].success) =>
               (exchanges[o].active_flag /\ ~exchanges[o].consecutive_exception)
        /\ ~exchanges[o].active_flag => exchanges[o].exception_counter >= 3

C10_Paced ==
    \A o \in DOMAIN exchanges :
        \A k \in DOMAIN gets[o] :
            (k > 1 /\ gets[o][k].op = "request") =>
                (gets[o][k].at - gets[o][k - 1].at) * exchanges[o].rate_limit[2]
                    >= exchanges[o].rate_limit[1]

\* ---- format_data
Formatted == fmt.call = "done" /\ fmt.response.name = exchanges["o1"].name
FormatKeys == fmt.response.responses.order
FormatBody(c) == fmt.response.responses.body[c]
FormatPass(c) == fmt.out.passes[c]

\* a field of the body is missing, or of a type the mapping cannot read
FieldUnreadable(body) ==
    \E k \in DOMAIN body : body[k] \in {Null, Raises}
\* a list field of the body has an element of a type the conversion rejects
ElementUnreadable(body) ==
    \E k \in DOMAIN body : body[k] = ColumnWithNull
BadShape(body) ==
    body = EmptyObject \/ FieldUnreadable(body) \/ ElementUnreadable(body)

\* C11 (as claimed): format_data never raises for a raw result whose responses
\* are an empty object, an object missing a mapped field or an object with a
\* mapped field of the wrong JSON type, under a pair key or under None: it
\* returns a batch of rows and a key list.
C11_NeverRaises ==
    (Formatted /\ \A c \in SeqRange(FormatKeys) : BadShape(FormatBody(c))) =>
        fmt.out.status = "returned"

\* the row count the fields of a body call for: the longest list among them,
\* one row if no field is a list
ListLengths(body) == {Len(body[k].val) : k \in {x \in DOMAIN body : body[x].kind = "column"}}
RowCount(body) == IF ListLengths(body) = {} THEN 1 ELSE MaxOf(ListLengths(body))

RECURSIVE RowsInOrder(_)
RowsInOrder(keys) ==
    IF keys = <<>> THEN <<>>
    ELSE (IF Head(keys) \in DOMAIN fmt.out.passes THEN FormatPass(Head(keys)).rows ELSE <<>>)
         \o RowsInOrder(Tail(keys))

\* C12: a pair for which a mapping yields None, or for which extraction
\* raises, contributes no row; every other pair of the same raw result, before
\* or after it, has all its rows in the output.
C12_DropRowKeepBatch ==
    (Formatted /\ fmt.out.status = "returned") =>
        /\ DOMAIN fmt.out.passes = SeqRange(FormatKeys)
        /\ fmt.out.results = RowsInOrder(FormatKeys)
        /\ \A c \in SeqRange(FormatKeys) :
              IF FormatBody(c) = EmptyObject \/ FieldUnreadable(FormatBody(c))
              THEN FormatPass(c).rows = <<>>
              ELSE /\ FormatPass(c).what = "rows"
                   /\ Len(FormatPass(c).rows) >= RowCount(FormatBody(c))

C12_Witness ==
    /\ Formatted /\ fmt.out.status = "returned"
    /\ Len(FormatKeys) = 3
    /\ FormatBody(FormatKeys[1]) # EmptyObject /\ ~FieldUnreadable(FormatBody(FormatKeys[1]))
    /\ \E k \in DOMAIN FormatBody(FormatKeys[2]) : FormatBody(FormatKeys[2])[k] = Raises
    /\ FormatBody(FormatKeys[3]) # EmptyObject /\ ~FieldUnreadable(FormatBody(FormatKeys[3]))
    /\ Len(fmt.out.results) = 1 + MaxColLen

\* the column of key k in the rows of a pass
ColumnIndex(keys, k) == CHOOSE j \in DOMAIN keys : keys[j] = k
Cell(pass, r, k) == pass.rows[r][ColumnIndex(pass.keys, k)]

\* C13 (as claimed): the number of rows of a pair is the longest list among
\* its fields, 1 if no field is a list, and a field extracted as one scalar
\* (a number or a single string) has that whole value in every row.
C13_ScalarsRepeated ==
    Formatted =>
        \A c \in DOMAIN fmt.out.passes :
            FormatPass(c).what = "rows" =>
                /\ Len(FormatPass(c).rows) = RowCount(FormatBody(c))
                /\ \A k \in DOMAIN FormatBody(c) \ {"position"} :
                      FormatBody(c)[k].kind \in {"number", "string"} =>
                          \A r \in DOMAIN FormatPass(c).rows :
                              Cell(FormatPass(c), r, k) = FormatBody(c)[k]

NoSingleString(body) == \A k \in DOMAIN body : body[k].kind # "string"

CellOf(v, r) ==
    IF HasIter(v) THEN (IF r <= Len(Items(v)) THEN Items(v)[r] ELSE Null) ELSE v

\* C15: the constants are merged as further repeated columns and never
\* overwrite a mapped field: for a key that is both a mapping key and a
\* constant every row carries the mapped value, and a constant that is no
\* mapping key has its value in every row.
C15_ConstantsNeverOverwrite ==
    Formatted =>
        \A c \in DOMAIN fmt.out.passes :
            FormatPass(c).what = "rows" =>
                \A r \in DOMAIN FormatPass(c).rows :
                    /\ \A k \in SeqRange(fmt.kwargs.keys) \cap DOMAIN FormatBody(c) :
                          Cell(FormatPass(c), r, k) = CellOf(FormatBody(c)[k], r)
                    /\ \A k \in SeqRange(fmt.kwargs.keys) \ DOMAIN FormatBody(c) :
                          Cell(FormatPass(c), r, k) = fmt.kwargs.val[k]

C15_Witness ==
    /\ Formatted /\ fmt.kwargs = TickKwargs
    /\ \E c \in DOMAIN fmt.out.passes :
          /\ FormatPass(c).what = "rows"
          /\ "time" \in DOMAIN FormatBody(c)
          /\ FormatBody(c)["time"] = TheNumber
          /\ Len(FormatPass(c).rows) = MaxColLen
          /\ \A r \in DOMAIN FormatPass(c).rows :
                /\ Cell(FormatPass(c), r, "time") = TheNumber
                /\ Cell(FormatPass(c), r, "start_time") = Time(100)

\* ---- test_connection
ProbeConfigured(o) ==
    task[o].call = "test_connection" /\ "test_connection" \in DOMAIN exchanges[o].request_urls

\* C16 (as claimed): test_connection on an exchange with a configured
\* test_connection request issues the probe GET and returns (name, success,
\* body) with success true when the GET and the parse of its body succeeded.
C16_ProbeReportsOutcome ==
    \A o \in DOMAIN exchanges :
        (ProbeConfigured(o) /\ ~task[o].running) =>
            /\ Len(gets[o]) = 1
            /\ result[o].kind = "probe"
            /\ result[o].success = (gets[o][1].outcome = OK)

\* ---- pair-template formatting
TickerTemplate(o) == exchanges[o].request_urls["ticker"].pair_template
FirstOf(get) == ExchangeCurrencyPair[get.cp].first
SecondOf(get) == ExchangeCurrencyPair[get.cp].second

\* C17: with the template "{first}_{second}" and lower_case the pair
\* (BTC, ETH) is rendered "btc_eth" and substituted into the url, and no alias
\* parameter is added; with an alias (and no lower_case) the rendering keeps
\* the case of the symbols, is sent as the parameter named by the alias, and
\* the url is left as compiled.
C17_PairTemplateFormatting ==
    \A o \in DOMAIN exchanges :
        \A k \in DOMAIN gets[o] :
            LET get == gets[o][k]
            IN (get.op = "request" /\ task[o].request_name = "ticker") =>
                  /\ TickerTemplate(o) = UrlPairTemplate =>
                        /\ get.url = <<"https://api/", "ticker/", Lower(FirstOf(get)), "_",
                                       Lower(SecondOf(get))>>
                        /\ get.cp = 1 => get.url = <<"https://api/", "ticker/", "btc", "_", "eth">>
                        /\ \A kv \in get.params : kv[1] = "limit"
                  /\ TickerTemplate(o) = AliasPairTemplate =>
                        /\ get.url = <<"https://api/", "ticker">>
                        /\ <<"symbol", <<FirstOf(get), SecondOf(get)>>>> \in get.params
                        /\ \A kv \in get.params :
                              kv[1] = "symbol" => kv[2] = <<FirstOf(get), SecondOf(get)>>

C17_Witness ==
    \E o \in DOMAIN exchanges :
        /\ TickerTemplate(o) = UrlPairTemplate
        /\ Len(gets[o]) = 2
        /\ gets[o][1].cp = 3
        /\ gets[o][2].cp = 1
        /\ gets[o][2].url = <<"https://api/", "ticker/", "btc", "_", "eth">>
        /\ gets[o][2].params = {<<"limit", <<"100">>>>}

\* C18 (as claimed): the compiled request specs are never mutated: url, params
\* and pair_template of every request name are the same after any call as
\* before it.
C18_RequestSpecsImmutable ==
    [][\A o \in DOMAIN exchanges \cap DOMAIN exchanges' :
          exchanges'[o].request_urls = exchanges[o].request_urls]_vars

C28_RateLimitDerived ==
    lib.call = "constructed" =>
        LET rl == lib.yaml_file.rate_limit
            rate_limit == exchanges["o1"].rate_limit
        IN /\ (rl.present /\ rl.max > 0) => rate_limit[1] * rl.max = rl.units * rate_limit[2]
           /\ rate_limit[1] = 0 => (~rl.present \/ rl.max <= 0)

\* C29: every params value handed to session.get by Exchange.request is a
\* resolved literal, never the function stored at compilation.
C29_DeferredParamsResolved ==
    \A o \in DOMAIN gets :
        \A k \in DOMAIN gets[o] :
            \A p \in gets[o][k].params : ~IsFunctionRef(p[2])

\* ---- main.py: start-up errors, SIGINT, a raising request task
\* the configuration read at start-up is invalid
InvalidConfiguration == ~main.jobs_valid \/ main.frequency = "invalid"

\* C21: with an invalid configuration the program never runs a tick and
\* never starts up a second time.
C21_InvalidConfigurationFatal ==
    InvalidConfiguration => (main.ticks = 0 /\ main.restarts = 0)

\* C22: once SIGINT has arrived the process is stopped and stays stopped: no
\* restart, no further tick and no further GET follows it.
C22_SigintTerminates ==
    [][/\ main'.stopped_at # "" => main'.pc = "stopped"
       /\ main.stopped_at # "" => (main' = main /\ gets' = gets /\ task' = task)]_vars

C22_Witness ==
    /\ main.pc = "stopped" /\ main.stopped_at = "tick" /\ main.restarts > 0
    /\ \E o \in JobObjects : task[o].running

Selected ==
    {r.id : r \in {q \in PairTable :
        /\ q.exchange = Upper(lib.exchange_name)
        /\ \/ \E k \in DOMAIN lib.currency_pairs :
                 \/ lib.currency_pairs[k].kind = "all"
                 \/ /\ lib.currency_pairs[k].kind = "dict"
                    /\ Upper(lib.currency_pairs[k].first.name) = q.first
                    /\ Upper(lib.currency_pairs[k].second.name) = q.second
           \/ /\ lib.first_currencies # NoneValue
              /\ \E k \in DOMAIN lib.first_currencies : Upper(lib.first_currencies[k]) = q.first
           \/ /\ lib.second_currencies # NoneValue
              /\ \E k \in DOMAIN lib.second_currencies :
                     Upper(lib.second_currencies[k]) = q.second}}

\* C24: collect_exchanges_currency_pairs returns every selected pair, no other
\* pair, and no id twice.
C24_UnionDeduplicated ==
    (lib.call = "collect_exchanges_currency_pairs" /\ lib.done) =>
        /\ \A a, b \in DOMAIN lib.out : a # b => lib.out[a] # lib.out[b]
        /\ SeqRange(lib.out) = Selected

\* the pair a row names, as the database knew it before the call; NoneKey when
\* a name is None or the exchange has no such pair
ResolvedBefore(ticker) ==
    LET rows == {r \in PairTable :
                    /\ NoneValue \notin {ticker.first, ticker.second}
                    /\ r.exchange = Upper(ticker.exchange)
                    /\ r.first = Upper(ticker.first)
                    /\ r.second = Upper(ticker.second)}
    IN IF rows = {} THEN NoneKey ELSE (CHOOSE r \in rows : TRUE).id

\* C25: of a batch with rows, persist_tickers adds exactly the rows whose pair
\* is one of the queried pairs, in their order, and the block does not raise;
\* the committed Tickers are the added ones.
C25_StorageFilter ==
    (lib.call = "persist_tickers" /\ lib.pc \in {"block_done", "left"}
        /\ lib.tickers # <<>>) =>
        /\ lib.block = "ok"
        /\ \A i \in DOMAIN lib.tickers :
              (\E k \in DOMAIN lib.added : lib.added[k].row = i)
                  <=> ResolvedBefore(lib.tickers[i]) \in lib.queried_currency_pairs
        /\ \A k \in DOMAIN lib.added :
              /\ lib.added[k].exchange_pair_id = ResolvedBefore(lib.tickers[lib.added[k].row])
              /\ \A j \in DOMAIN lib.added : j < k => lib.added[j].row < lib.added[k].row
        /\ (lib.pc = "left" /\ lib.commit = "ok") => lib.stored = lib.added

\* a batch in which a row of a queried pair follows a row with a null currency
\* and a row of a pair the database did not know
C25_Witness ==
    /\ lib.call = "persist_tickers" /\ lib.pc = "left" /\ lib.commit = "ok"
    /\ Len(lib.stored) = 1 /\ lib.stored[1].row = Len(lib.tickers)
    /\ \E i \in DOMAIN lib.tickers : NoneValue \in {lib.tickers[i].first, lib.tickers[i].second}
    /\ Cardinality(lib.table) > Cardinality(PairTable)

\* C30: leaving session_scope after a block that ended normally commits once and
\* then closes; after a block or a commit that raised it rolls back, commits
\* nothing, closes and raises the same exception; close is always the one last
\* call on the session.
C30_SessionScopeTransactional ==
    (lib.call = "persist_tickers" /\ lib.pc = "left") =>
        LET log == lib.log
            Count(op) == Cardinality({k \in DOMAIN log : log[k] = op})
        IN /\ (lib.block = "ok" /\ lib.commit = "ok") =>
                  (log = <<"sessionFactory", "commit", "close">> /\ lib.out = "returned")
           /\ (lib.block # "ok" \/ lib.commit # "ok") =>
                  /\ Count("rollback") = 1 /\ Count("commit") = 0
                  /\ lib.stored = <<>>
                  /\ lib.out = IF lib.block # "ok" THEN lib.block ELSE lib.commit
           /\ lib.block # "ok" => Count("commit raises") = 0
           /\ Count("close") = 1 /\ log[Len(log)] = "close"

\* the commit raised, and the block raised
C30_Witness ==
    /\ lib.call = "persist_tickers" /\ lib.pc = "left"
    /\ lib.block = "ok" /\ lib.commit = "OperationalError" /\ lib.added # <<>>
    /\ lib.out = "OperationalError"

\* ---- utilities.py
\* the applications of the conversion made so far all returned the same
SameResults == \A a, b \in DOMAIN lib.out : lib.out[a] = lib.out[b]

\* the two conversions that return the time of the call
ClockReading == {<<"none", "now">>, <<"none", "nowstrptime">>}

\* C26 (as claimed): every conversion returns the same result for the same
\* value and parameters whenever it is applied.
C26_Deterministic == lib.call = "convert" => SameResults

\* C26 (amended): every conversion except ("none", "now") and
\* ("none", "nowstrptime") returns the same result for the same value and
\* parameters whenever it is applied.
C26_DeterministicButNow ==
    (lib.call = "convert" /\ lib.key \notin ClockReading) => SameResults

\* a timestamp converted to local time twice, a day apart
C26_Witness ==
    /\ lib.call = "convert" /\ lib.key = <<"int", "fromtimestamp">>
    /\ lib.value = Num(86400) /\ Len(lib.out) = 2 /\ now >= 86400
    /\ lib.out[1] = Time(90000)

\* C31: persist_historic_rates is idempotent and duplicate-free: after any
\* call the store holds at most one rate per (exchange_pair_id, timestamp),
\* the call returns normally for every batch, the empty one included, and
\* persisting the batch of the call before once more, both without a failing
\* commit, leaves the store as it was.
C31_IdempotentDuplicateFree ==
    [][/\ lib'.out = "returned"
       /\ \A s, t \in lib'.store :
              s.exchange_pair_id = t.exchange_pair_id /\ s.timestamp = t.timestamp
                  => s = t
       /\ (/\ lib.out = "returned"
           /\ lib'.historic_rates = lib.historic_rates
           /\ lib.failing = 0 /\ lib'.failing = 0) => lib'.store = lib.store]_vars

\* the names a job configuration asks for: the configured ones, or all those
\* with a yaml when the first is 'all', minus the excluded ones
Configured(job_params) ==
    (IF job_params.exchanges[1] = "all" THEN SeqRange(AvailableNames)
     ELSE SeqRange(job_params.exchanges)) \ SeqRange(job_params.excluded)

\* a configuration that names at least one exchange per job, each with a yaml
Loadable ==
    \A i \in 1..Len(lib.job_config) :
        /\ lib.job_config[i].exchanges # <<>>
        /\ Configured(lib.job_config[i]) \subseteq SeqRange(AvailableNames)

C33_PairIdWithoutCurrencies ==
    Formatted =>
        \A c \in DOMAIN fmt.out.passes :
            FormatPass(c).what = "rows" =>
                /\ "exchange_pair_id" \in SeqRange(FormatPass(c).keys)
                       <=> {"currency_pair_first", "currency_pair_second"}
                               \cap SeqRange(fmt.mapping_keys) = {}
                /\ "exchange_pair_id" \in SeqRange(FormatPass(c).keys)
                       => \A r \in DOMAIN FormatPass(c).rows :
                              Cell(FormatPass(c), r, "exchange_pair_id") = Num(c)

\* C34: when the resources folder exists in the user config path,
\* get_config_template leaves a copy of the selected template (csv-export or
\* request) in the user config folder, replacing an existing file of that
\* name; it refuses, printing the hint to call update_maps and changing no
\* file, only when the folder is missing.
C34_TemplateCopied ==
    (lib.pc = "returned") =>
        LET selected == IF lib.csv THEN "csv_export_template.yaml"
                        ELSE "request_template.yaml"
        IN IF lib.resources_exists
           THEN /\ lib.files[selected] = "template"
                /\ \A f \in TemplateNames \ {selected} : lib.files[f] = lib.before[f]
                /\ lib.printed = "Created new config template."
           ELSE /\ lib.files = lib.before
                /\ lib.printed = "Call 'runner.update_maps()'"

C36_RequestTupleAccepted ==
    [][\A o \in DOMAIN exchanges :
           (fmt' # fmt /\ fmt'.response = ReturnedTuple(result[o]))
               => fmt'.out.status = "returned"]_vars

\* every row of the batch has one entry per returned key, and the rows of
\* every pair that added rows are in the order of the returned key list
RowsMatchKeys ==
    /\ \A r \in DOMAIN fmt.out.results :
           Len(fmt.out.results[r]) = Len(fmt.out.updated_mappings)
    /\ \A c \in DOMAIN fmt.out.passes :
           FormatPass(c).rows # <<>> => FormatPass(c).keys = fmt.out.updated_mappings

\* C37 (as claimed): every returned row has exactly as many entries as the
\* returned key list, in its column order, for every pair that adds rows; when
\* no pair adds a row, the row list and the key list are both empty.
C37_RowsMatchKeys ==
    (Formatted /\ fmt.out.status = "returned") =>
        /\ RowsMatchKeys
        /\ (\A c \in DOMAIN fmt.out.passes : FormatPass(c).rows = <<>>)
               => fmt.out.results = <<>> /\ fmt.out.updated_mappings = <<>>

\* C37 (amended): every returned row has exactly as many entries as the
\* returned key list, in its column order, for every pair that adds rows; when
\* no pair is formatted to the end (each is skipped, unreadable or invalid),
\* the row list and the key list are both empty, and a pair formatted to the
\* end sets the key list even when it adds no row.
C37_RowsMatchKeysOfFormatted ==
    (Formatted /\ fmt.out.status = "returned") =>
        /\ RowsMatchKeys
        /\ (\A c \in DOMAIN fmt.out.passes : FormatPass(c).what # "rows")
               => fmt.out.results = <<>> /\ fmt.out.updated_mappings = <<>>
        /\ (\E c \in DOMAIN fmt.out.passes : FormatPass(c).what = "rows")
               => fmt.out.updated_mappings # <<>>

\* two pairs have added rows to a batch with the two constants of the tick
C37_Witness ==
    /\ Formatted /\ fmt.out.status = "returned"
    /\ fmt.kwargs = TickKwargs
    /\ \E c, d \in DOMAIN fmt.out.passes :
           /\ c # d
           /\ FormatPass(c).rows # <<>> /\ FormatPass(d).rows # <<>>
           /\ Len(FormatPass(c).rows) # Len(FormatPass(d).rows)
    /\ Len(fmt.out.updated_mappings) > Len(fmt.mapping_keys)

\* the GETs of the call of o that have ended without a parsed body
FailedGets(o) == {k \in DOMAIN gets[o] : gets[o][k].outcome \notin {OK, Pending}}

C39_EmptyBatchCommits ==
    (/\ lib.call = "persist_tickers" /\ lib.pc = "left"
     /\ lib.tickers = <<>> /\ lib.commit # "OperationalError") =>
        /\ lib.out = "returned"
        /\ lib.log = <<"sessionFactory", "commit", "close">>
        /\ lib.added = <<>> /\ lib.stored = <<>>

\* the health fields of the object o
Health(objects, o) == <<objects[o].exception_counter, objects[o].consecutive_exception>>

====
